---- MODULE Spec2Model ----
(***************************************************************************)
(* The external-content provider clients of the homeschool application:    *)
(* CK12API, NASAAPI, OpenLibraryAPI, KhanAcademyAPI and WordsAPI.  Each    *)
(* client owns one cache directory of JSON files judged by file age.       *)
(* One behaviour follows one provider's cache directory through a sequence *)
(* of calls, clock advances and client re-constructions (Spec).            *)
(* Time is counted in hours; timedelta.days is the floor of age / 24.      *)
(* The Flask application of app.py is followed through the requests of one *)
(* browser session (AppSpec), and its daily backup job through a run next  *)
(* to a provider call that writes under uploads/ (BackupSpec).             *)
(***************************************************************************)
EXTENDS Integers, Sequences, FiniteSets, TLC

VARIABLES
    client,   \* the constructed client object: provider class and api_key
    now,      \* datetime.now(), in hours
    fs,       \* the client's cache directory: file name -> file
    call,     \* what the call made in the latest step did (NoCall after a clock step)
    writer,   \* history: for each cache file, the call that last wrote it
    users,    \* the user table: id -> row
    session,  \* the user id held by the browser's session cookie (Anonymous: none)
    reply,    \* the response to the latest request
    progress, \* the Progress table: <<user id, lesson id>> -> row
    journal,  \* the JournalEntry table: id -> row
    rewards,  \* the Reward table: id -> row
    archive,  \* the backup zip being written: member name -> copied text
    job,      \* the backup job: where it is and the files it has still to copy
    inflight, \* a provider call that has fetched and is writing its cache file
    threads   \* the search_content calls in progress, one per request thread

cachevars == <<client, now, fs, call, writer>>
appvars == <<users, session, reply, progress, journal, rewards>>
bakvars == <<archive, job, inflight, threads>>
vars == <<client, now, fs, call, writer, users, session, reply, progress,
          journal, rewards,
          archive, job, inflight, threads>>

\* ------------------------------------------------------------------ bounds
MaxFiles == 1
MaxHour == 743
MaxAttempts == 2

\* --------------------------------------------------------------- constants
HoursPerDay == 24
TTL_DAY == 1
TTL_WEEK == 7
TTL_MONTH == 30
TTL_HOURS == 6
DefaultLimit == 20
KhanDefaultLimit == 10

\* The instants the clock visits.  The ages between them fall just below and
\* just above each TTL: 0 and 1 day, 6 and 7 days, 29 and 30 days.
Instants == {0, TTL_DAY * HoursPerDay, (TTL_WEEK + 1) * HoursPerDay - 1, MaxHour}

\* ------------------------------------------------------------ Python values
None == "None"
NoGrade == 0
PyNone == [type |-> "NoneType", value |-> None]
PyList(s) == [type |-> "list", value |-> s]
PyDict(d) == [type |-> "dict", value |-> d]
PyStr(s) == [type |-> "str", value |-> s]

Return(v) == [kind |-> "return", val |-> v]
Raise(e) == [kind |-> "raise", val |-> PyStr(e)]

\* dict.get(key, default)
Get(d, k, default) == IF k \in DOMAIN d THEN d[k] ELSE default

\* str(grade_level) inside an f-string
Str(g) == IF g = NoGrade THEN None ELSE ToString(g)

\* hashlib.md5(s.encode()).hexdigest(): a tag on the hashed string (no collisions)
Md5Hex(s) == "md5(" \o s \o ")"

\* seq[:n]
Take(s, n) == SubSeq(s, 1, IF Len(s) < n THEN Len(s) ELSE n)

\* ---------------------------------------------------------------- the disk
EmptyDir == [f \in {} |-> 0]

JsonDump(v) == [wellformed |-> TRUE, doc |-> v]
TornText == [wellformed |-> FALSE, doc |-> PyNone]
JsonLoad(text) == text.doc

File(text) == [kind |-> "file", mtime |-> now, text |-> text]

\* cache_age.days of cache_file
AgeDays(fsys, f) == (now - fsys[f].mtime) \div HoursPerDay

\* the age test with its comparison turned round
IsFresh_flipped(fsys, f, ttl) == f \in DOMAIN fsys /\ AgeDays(fsys, f) >= ttl

\* cache_file.exists() and cache_age.days < ttl
IsFresh(fsys, f, ttl) == f \in DOMAIN fsys /\ AgeDays(fsys, f) < ttl

\* ------------------------------------------------------------- the network
\* session.get raises (transport), raise_for_status raises (non-2xx), or a 2xx
\* body arrives.  disk = "torn": the write that follows open(path, 'w') is cut
\* short (disk full, process killed), leaving a truncated file.
TransportError == [kind |-> "transport_error", body |-> PyNone, disk |-> "ok"]
HttpError == [kind |-> "http_error", body |-> PyNone, disk |-> "ok"]
Ok(b) == [kind |-> "ok", body |-> b, disk |-> "ok"]
OkTornWrite(b) == [kind |-> "ok", body |-> b, disk |-> "torn"]
Failed(out) == out.kind \in {"transport_error", "http_error"}
Outcomes(bodies) == {TransportError, HttpError} \cup {Ok(b) : b \in bodies}
                       \cup {OkTornWrite(CHOOSE b \in bodies : TRUE)}

\* ------------------------------------------------------------ one call
\* the slot of a call that has no cache file
NoFile == "-"

NoCall == [op |-> "none", args |-> EmptyDir, file |-> NoFile,
           pre |-> [exists |-> FALSE, age |-> 0, wellformed |-> FALSE],
           requests |-> <<>>, responses |-> <<>>, trace |-> <<>>, log |-> <<>>,
           result |-> Return(PyNone)]

Ctx0 == [fs |-> fs, writer |-> writer, requests |-> <<>>, responses |-> <<>>,
         trace |-> <<>>, log |-> <<>>, result |-> Return(PyNone)]

Step(c, ev) == [c EXCEPT !.trace = Append(@, ev)]

\* a session mounted with a retrying adapter: a failed request is sent once more
Request_retried(c, req, out) ==
    IF out.kind = "ok"
    THEN [c EXCEPT !.trace = Append(@, "request"),
                   !.requests = Append(@, req),
                   !.responses = Append(@, out)]
    ELSE [c EXCEPT !.trace = Append(Append(@, "request"), "request"),
                   !.requests = Append(Append(@, req), req),
                   !.responses = Append(Append(@, out), out)]

\* session.get(url, params=params), answered by out
Request(c, req, out) == [c EXCEPT !.trace = Append(@, "request"),
                                  !.requests = Append(@, req),
                                  !.responses = Append(@, out)]

\* the except branch without its logger.error
LogAndReturn_unlogged(c, msg, value) == [c EXCEPT !.result = Return(value)]

\* logger.error(msg); return value
LogAndReturn(c, msg, value) ==
    [c EXCEPT !.trace = Append(@, "log"), !.log = Append(@, msg),
              !.result = Return(value)]

\* with open(f, 'w') as fh: json.dump(...)
Put(c, op, args, f, text, res) ==
    [c EXCEPT !.fs = (f :> File(text)) @@ @,
              !.writer = (f :> [op |-> op, args |-> args, result |-> res]) @@ @,
              !.trace = Append(@, "put")]

\* with open(cache_file, 'r') as f: data = json.load(f)
ReadCached(c, f) ==
    IF c.fs[f].text.wellformed
    THEN [Step(Step(c, "lookup"), "hit") EXCEPT !.result = Return(JsonLoad(c.fs[f].text))]
    ELSE [Step(Step(c, "lookup"), "hit") EXCEPT !.result = Raise("JSONDecodeError")]

\* a fetch that unlinks the stale entry when the request fails
FetchAndStore_evicting(c, op, args, f, req, out, fail_value, msg) ==
    LET c1 == Request(Step(Step(c, "lookup"), "miss"), req, out)
        c2 == [c1 EXCEPT !.fs = [g \in DOMAIN c1.fs \ {f} |-> c1.fs[g]],
                         !.writer = [g \in DOMAIN c1.writer \ {f} |-> c1.writer[g]]]
    IN  IF Failed(out)
        THEN LogAndReturn(c2, msg, fail_value)
        ELSE IF out.disk = "torn"
        THEN [Put(c1, op, args, f, TornText, Raise("OSError")) EXCEPT
                 !.result = Raise("OSError")]
        ELSE [Put(c1, op, args, f, JsonDump(out.body), Return(out.body)) EXCEPT
                 !.result = Return(out.body)]

\* try: session.get; raise_for_status; data = json(); dump to cache_file
\* except RequestException: log; return fail_value
FetchAndStore(c, op, args, f, req, out, fail_value, msg) ==
    LET c1 == Request(Step(Step(c, "lookup"), "miss"), req, out)
    IN  IF Failed(out)
        THEN LogAndReturn(c1, msg, fail_value)
        ELSE IF out.disk = "torn"
        THEN [Put(c1, op, args, f, TornText, Raise("OSError")) EXCEPT
                 !.result = Raise("OSError")]
        ELSE [Put(c1, op, args, f, JsonDump(out.body), Return(out.body)) EXCEPT
                 !.result = Return(out.body)]

\* The pattern the cached operations repeat: look the slot up, return the stored
\* document while it is young enough, otherwise request, store, return.
CacheThenFetch(c, op, args, f, ttl, req, out, fail_value, msg) ==
    IF IsFresh(c.fs, f, ttl)
    THEN ReadCached(c, f)
    ELSE FetchAndStore(c, op, args, f, req, out, fail_value, msg)

\* the call holds the document, read from the slot or fetched and stored
Loaded(r) ==
    /\ r.result.kind = "return"
    /\ r.trace[Len(r.trace)] \in {"hit", "put"}

\* the statement after the load: the call ends with res, computed from the document
Finish(r, f, res) ==
    [r EXCEPT !.result = res,
              !.writer = IF r.trace[Len(r.trace)] = "put"
                         THEN [@ EXCEPT ![f].result = res]
                         ELSE @]

\* the cache slot as the call found it
Pre(f) == IF f \in DOMAIN fs
          THEN [exists |-> TRUE, age |-> now - fs[f].mtime,
                wellformed |-> fs[f].text.wellformed]
          ELSE [exists |-> FALSE, age |-> 0, wellformed |-> FALSE]

Commit(c, op, args, f) ==
    /\ Cardinality(DOMAIN c.fs) <= MaxFiles
    /\ fs' = c.fs
    /\ writer' = c.writer
    /\ call' = [op |-> op, args |-> args, file |-> f, pre |-> Pre(f),
                requests |-> c.requests, responses |-> c.responses,
                trace |-> c.trace, log |-> c.log,
                result |-> c.result]
    /\ UNCHANGED <<client, now, appvars, bakvars>>

\* ----------------------------------------------------------------- inputs
\* self.base_url of each client
base_url ==
    [ck12 |-> "https://www.ck12.org/api/v1",
     nasa |-> "https://api.nasa.gov",
     openlibrary |-> "https://openlibrary.org",
     khan |-> "https://www.khanacademy.org/api/v1",
     words |-> "https://wordsapiv1.p.rapidapi.com"]

\* the arguments each operation is called with
Args ==
    [search_content |->
        {[query |-> "fractions", subject |-> "math", grade_level |-> 4, limit |-> DefaultLimit],
        [query |-> "fractions", subject |-> "math", grade_level |-> 4, limit |-> 1],
        [query |-> "fractions", subject |-> None, grade_level |-> NoGrade, limit |-> DefaultLimit]},
     get_content_details |->
        {"c1"},
     get_concepts |->
        {[subject |-> "math", grade_level |-> 4]},
     get_apod |->
        {None},
     get_mars_photos |->
        {[sol |-> None, camera |-> "all", limit |-> 10],
        [sol |-> None, camera |-> "all", limit |-> 1]},
     get_earth_imagery |->
        {[lat |-> "29.78", lon |-> "-95.33", date |-> None]},
     search_nasa_images |->
        {[query |-> "moon", limit |-> DefaultLimit]},
     download_image |->
        {"https://images/moon.jpg"},
     get_space_mission_data |->
        {"apollo 11"},
     search_books |->
        {[query |-> "dogs", limit |-> DefaultLimit, grade_level |-> NoGrade],
        [query |-> "dogs", limit |-> 1, grade_level |-> NoGrade],
        [query |-> "dogs", limit |-> DefaultLimit, grade_level |-> 2]},
     get_book_details |->
        {"OL1W"},
     get_author_details |->
        {"OL9A"},
     get_subject_books |->
        {[subject |-> "science", grade_level |-> NoGrade, limit |-> DefaultLimit],
        [subject |-> "science", grade_level |-> 2, limit |-> 1]},
     download_book_cover |->
        {[book_id |-> "11", size |-> "M"]},
     search_videos |->
        {[topic |-> "fractions", grade_level |-> 3, limit |-> KhanDefaultLimit]},
     get_exercises |->
        {[subject |-> "math", grade_level |-> 3]},
     get_video_content |->
        {"v1"},
     get_word_definition |->
        {"Happy", "serendipity"},
     create_lesson_from_khan |->
        {[subject |-> "math", grade_level |-> 3, topic |-> "fractions"]},
     create_reading_lesson |->
        {[book_title |-> "dogs", grade_level |-> 4]}]

\* the documents the provider may answer an operation with (response.json())
Bodies ==
    [search_content |->
        {PyDict([content |-> <<[id |-> "c1", title |-> "Interactive fractions", type |-> "simulation", difficulty |-> "hard", license |-> "cc"],
        [id |-> "c2", title |-> "Fraction practice"]>>]),
        PyDict([total |-> "0"])},
     get_content_details |->
        {PyDict([title |-> "Fractions", embed_url |-> "https://ck12/embed/c1"]),
        PyDict([title |-> "Fractions, revised"])},
     get_subjects |->
        {PyList(<<"math", "science">>),
        PyList(<<>>)},
     get_concepts |->
        {PyList(<<"numerator", "denominator">>),
        PyList(<<>>)},
     get_apod |->
        {PyDict([title |-> "Orion Nebula", url |-> "https://apod/1.jpg"]),
        PyDict([title |-> "Crab Nebula", url |-> "https://apod/2.jpg"])},
     get_mars_photos |->
        {PyDict([photos |-> <<"photo1", "photo2">>]),
        PyDict([errors |-> "No such rover"])},
     get_earth_imagery |->
        {PyList(<<"epic1">>),
        PyList(<<>>)},
     search_nasa_images |->
        {PyDict([collection |-> [items |-> <<[links |-> <<[href |-> "https://images/moon.jpg"]>>]>>]]),
        PyDict([reason |-> "bad request"])},
     get_space_weather |->
        {PyList(<<"flare">>),
        PyList(<<>>)},
     get_space_mission_data |->
        {PyDict([projects |-> <<[title |-> "voyager"],
        [title |-> "apollo 11 lander"]>>]),
        PyDict([projects |-> <<[title |-> "voyager"]>>])},
     search_books |->
        {PyDict([docs |-> <<[key |-> "OL1W", title |-> "dog stories"],
        [key |-> "OL2W", title |-> "teen detective", subject |-> <<"young adult">>]>>]),
        PyDict([numFound |-> "0"])},
     get_book_details |->
        {PyDict([title |-> "dog stories", covers |-> "11"]),
        PyDict([title |-> "dog stories", covers |-> "12"])},
     get_author_details |->
        {PyDict([name |-> "A. Writer"]),
        PyDict([name |-> "A. Writer", bio |-> "x"])},
     get_subject_books |->
        {PyDict([works |-> <<[key |-> "OL2W", title |-> "teen detective", subject |-> <<"young adult">>],
        [key |-> "OL1W", title |-> "dog stories"]>>]),
        PyDict([works |-> <<[key |-> "OL1W", title |-> "dog stories"]>>])},
     search_videos |->
        {PyList(<<[id |-> "v1", title |-> "Intro to fractions", thumbnail_url |-> "https://t/1"],
        [id |-> "v2", title |-> "Adding fractions", kind |-> "Video"]>>),
        PyList(<<>>)},
     get_exercises |->
        {PyList(<<[id |-> "e1", title |-> "Halves", level |-> "1"]>>),
        PyList(<<>>)},
     get_video_content |->
        {PyDict([title |-> "Intro to fractions", download_urls |-> [medium |-> "https://khan/v1.mp4"]]),
        PyDict([title |-> "Intro to fractions"])},
     lesson_videos |->
        {PyList(<<[id |-> "v1", title |-> "Intro to fractions"], [id |-> "v2"],
                  [id |-> "v3"], [id |-> "v4"]>>),
        PyList(<<[id |-> "v2"], [id |-> "v1"]>>)},
     lesson_exercises |->
        {PyList(<<[id |-> "e1"], [id |-> "e2"], [id |-> "e3"], [id |-> "e4"],
                  [id |-> "e5"], [id |-> "e6"]>>),
        PyList(<<[id |-> "e1", title |-> "Halves"]>>)},
     _get_subject_topics |->
        {PyList(<<"arithmetic">>)}]

\* ------------------------------------------------------------------ CK-12

_process_item(content) ==
    [id |-> Get(content, "id", None), title |-> Get(content, "title", None),
     description |-> Get(content, "description", None),
     type |-> Get(content, "type", None), subject |-> Get(content, "subject", None),
     grade_level |-> Get(content, "grade_level", None), url |-> Get(content, "url", None),
     embed_url |-> Get(content, "embed_url", None),
     difficulty |-> Get(content, "difficulty", "medium")]

_process_content(content_list) ==
    PyList([i \in 1..Len(content_list) |-> _process_item(content_list[i])])

SearchView(data) == Return(_process_content(Get(data.value, "content", <<>>)))

SearchParams(a) ==
    [q |-> a.query, limit |-> ToString(a.limit)]
      @@ (IF a.subject # None THEN [subject |-> a.subject] ELSE EmptyDir)
      @@ (IF a.grade_level # NoGrade THEN [grade_level |-> ToString(a.grade_level)]
          ELSE EmptyDir)

SearchCacheFile(a) ==
    "search_" \o Md5Hex(a.query \o "_" \o a.subject \o "_" \o Str(a.grade_level)) \o ".json"

\* search_content without its "check cache first" block
search_content_no_cache_read(c, a, out) ==
    LET r == FetchAndStore(c, "search_content", a, SearchCacheFile(a),
                  [url |-> base_url.ck12 \o "/content", params |-> SearchParams(a)],
                  out, PyList(<<>>), "CK-12 search error")
    IN  IF Loaded(r) THEN Finish(r, SearchCacheFile(a), SearchView(r.result.val)) ELSE r

search_content(c, a, out) ==
    LET r == CacheThenFetch(c, "search_content", a, SearchCacheFile(a), TTL_WEEK,
                   [url |-> base_url.ck12 \o "/content", params |-> SearchParams(a)],
                   out, PyList(<<>>), "CK-12 search error")
    IN  IF Loaded(r) THEN Finish(r, SearchCacheFile(a), SearchView(r.result.val)) ELSE r

CK12_search_content ==
    /\ client.provider = "ck12"
    /\ \E a \in Args.search_content : \E out \in Outcomes(Bodies.search_content) :
          Commit(search_content(Ctx0, a, out), "search_content", a, SearchCacheFile(a))

ContentCacheFile(content_id) == "content_" \o content_id \o ".json"

get_content_details(c, content_id, out) ==
    CacheThenFetch(c, "get_content_details", [content_id |-> content_id],
                   ContentCacheFile(content_id), TTL_MONTH,
                   [url |-> base_url.ck12 \o "/content/" \o content_id, params |-> EmptyDir],
                   out, PyNone, "CK-12 content details error")

CK12_get_content_details ==
    /\ client.provider = "ck12"
    /\ \E id \in Args.get_content_details : \E out \in Outcomes(Bodies.get_content_details) :
          Commit(get_content_details(Ctx0, id, out), "get_content_details",
                 [content_id |-> id], ContentCacheFile(id))

get_subjects(c, out) ==
    CacheThenFetch(c, "get_subjects", EmptyDir, "subjects.json", TTL_MONTH,
                   [url |-> base_url.ck12 \o "/subjects", params |-> EmptyDir],
                   out, PyList(<<>>), "CK-12 subjects error")

CK12_get_subjects ==
    /\ client.provider = "ck12"
    /\ \E out \in Outcomes(Bodies.get_subjects) :
          Commit(get_subjects(Ctx0, out), "get_subjects", EmptyDir, "subjects.json")

ConceptsCacheFile(a) == "concepts_" \o a.subject \o "_" \o Str(a.grade_level) \o ".json"
ConceptsParams(a) ==
    (IF a.subject # None THEN [subject |-> a.subject] ELSE EmptyDir)
      @@ (IF a.grade_level # NoGrade THEN [grade_level |-> ToString(a.grade_level)]
          ELSE EmptyDir)

get_concepts(c, a, out) ==
    CacheThenFetch(c, "get_concepts", a, ConceptsCacheFile(a), TTL_WEEK,
                   [url |-> base_url.ck12 \o "/concepts", params |-> ConceptsParams(a)],
                   out, PyList(<<>>), "CK-12 concepts error")

CK12_get_concepts ==
    /\ client.provider = "ck12"
    /\ \E a \in Args.get_concepts : \E out \in Outcomes(Bodies.get_concepts) :
          Commit(get_concepts(Ctx0, a, out), "get_concepts", a, ConceptsCacheFile(a))

OfflineCacheFile(content_id) == "offline_" \o content_id \o ".json"

\* get_content_details, then the offline copy is written beside it
download_content(c, content_id, out) ==
    LET c1 == get_content_details(c, content_id, out)
        d == c1.result.val
        offline == PyDict([id |-> content_id, title |-> Get(d.value, "title", ""),
                           content |-> Get(d.value, "content", ""),
                           type |-> Get(d.value, "type", ""),
                           subject |-> Get(d.value, "subject", ""),
                           grade_level |-> Get(d.value, "grade_level", ""),
                           downloaded_at |-> ToString(now)])
    IN  IF c1.result.kind = "raise" THEN c1
        ELSE IF d.type = "NoneType" \/ d.value = EmptyDir THEN [c1 EXCEPT !.result = Return(PyNone)]
        ELSE [Put(c1, "download_content", [content_id |-> content_id],
                  OfflineCacheFile(content_id), JsonDump(offline),
                  Return(PyStr(OfflineCacheFile(content_id))))
                EXCEPT !.result = Return(PyStr(OfflineCacheFile(content_id)))]

CK12_download_content ==
    /\ client.provider = "ck12"
    /\ \E id \in Args.get_content_details : \E out \in Outcomes(Bodies.get_content_details) :
          Commit(download_content(Ctx0, id, out), "download_content",
                 [content_id |-> id], ContentCacheFile(id))

\* ------------------------------------------------------------------- NASA

\* needle in hay, for the strings of this model
Contains(hay, needle) ==
    <<hay, needle>> \in {<<"apollo 11 lander", "apollo 11">>,
                         <<"teen detective", "teen">>,
                         <<"young adult", "young adult">>}

\* the streamed body of a download: complete, or cut off after open(path, 'wb')
StreamError == [kind |-> "stream_error", body |-> PyNone, disk |-> "ok"]
StreamOutcomes == {TransportError, HttpError, StreamError, Ok(PyStr("bytes"))}
Bytes == [wellformed |-> TRUE, doc |-> PyStr("bytes")]
PartialBytes == [wellformed |-> FALSE, doc |-> PyStr("partial")]

\* try: session.get(stream=True); raise_for_status; write the chunks; return path
\* except RequestException: log; return None
StreamToFile(c, op, args, f, url, out, msg) ==
    LET c1 == Request(c, [url |-> url, params |-> EmptyDir], out)
    IN  IF Failed(out) THEN LogAndReturn(c1, msg, PyNone)
        ELSE IF out.kind = "stream_error"
        THEN LogAndReturn(Put(c1, op, args, f, PartialBytes, Return(PyNone)), msg, PyNone)
        ELSE [Put(c1, op, args, f, Bytes, Return(PyStr(f))) EXCEPT
                 !.result = Return(PyStr(f))]

ApodCacheFile(date) == "apod_" \o (IF date # None THEN date ELSE "today") \o ".json"
ApodParams(key, date) ==
    [api_key |-> key] @@ (IF date # None THEN [date |-> date] ELSE EmptyDir)

get_apod(c, date, out) ==
    CacheThenFetch(c, "get_apod", [date |-> date], ApodCacheFile(date), TTL_DAY,
                   [url |-> base_url.nasa \o "/planetary/apod",
                    params |-> ApodParams(client.api_key, date)],
                   out, PyNone, "NASA APOD API error")

NASA_get_apod ==
    /\ client.provider = "nasa"
    /\ \E d \in Args.get_apod : \E out \in Outcomes(Bodies.get_apod) :
          Commit(get_apod(Ctx0, d, out), "get_apod", [date |-> d], ApodCacheFile(d))

DefaultSol == 1000
MarsCacheFile(a) ==
    "mars_photos_" \o (IF a.sol # None THEN a.sol ELSE "latest") \o "_" \o a.camera \o ".json"

\* data['photos'][:limit]
MarsView(data, limit) ==
    IF "photos" \in DOMAIN data.value
    THEN Return(PyList(Take(data.value["photos"], limit)))
    ELSE Raise("KeyError")

get_mars_photos(c, a, out) ==
    LET r == CacheThenFetch(c, "get_mars_photos", a, MarsCacheFile(a), TTL_WEEK,
                   [url |-> base_url.nasa \o "/mars-photos/api/v1/rovers/curiosity/photos",
                    params |-> [api_key |-> client.api_key, camera |-> a.camera,
                                sol |-> IF a.sol # None THEN a.sol ELSE ToString(DefaultSol)]],
                   out, PyList(<<>>), "NASA Mars API error")
    IN  IF Loaded(r) THEN Finish(r, MarsCacheFile(a), MarsView(r.result.val, a.limit))
        ELSE r

NASA_get_mars_photos ==
    /\ client.provider = "nasa"
    /\ \E a \in Args.get_mars_photos : \E out \in Outcomes(Bodies.get_mars_photos) :
          Commit(get_mars_photos(Ctx0, a, out), "get_mars_photos", a, MarsCacheFile(a))

EarthCacheFile(a) ==
    "earth_" \o a.lat \o "_" \o a.lon \o "_"
       \o (IF a.date # None THEN a.date ELSE "latest") \o ".json"

get_earth_imagery(c, a, out) ==
    CacheThenFetch(c, "get_earth_imagery", a, EarthCacheFile(a), TTL_DAY,
                   [url |-> base_url.nasa \o "/EPIC/api/natural",
                    params |-> ApodParams(client.api_key, a.date)],
                   out, PyNone, "NASA Earth API error")

NASA_get_earth_imagery ==
    /\ client.provider = "nasa"
    /\ \E a \in Args.get_earth_imagery : \E out \in Outcomes(Bodies.get_earth_imagery) :
          Commit(get_earth_imagery(Ctx0, a, out), "get_earth_imagery", a, EarthCacheFile(a))

ImageCacheFile(a) == "search_" \o Md5Hex(a.query) \o ".json"

\* data['collection']['items'][:limit]
ImageView(data, limit) ==
    IF "collection" \in DOMAIN data.value
    THEN Return(PyList(Take(data.value["collection"]["items"], limit)))
    ELSE Raise("KeyError")

search_nasa_images(c, a, out) ==
    LET r == CacheThenFetch(c, "search_nasa_images", a, ImageCacheFile(a), TTL_WEEK,
                   [url |-> base_url.nasa \o "/search",
                    params |-> [q |-> a.query, media_type |-> "image",
                                api_key |-> client.api_key]],
                   out, PyList(<<>>), "NASA Search API error")
    IN  IF Loaded(r) THEN Finish(r, ImageCacheFile(a), ImageView(r.result.val, a.limit))
        ELSE r

NASA_search_nasa_images ==
    /\ client.provider = "nasa"
    /\ \E a \in Args.search_nasa_images : \E out \in Outcomes(Bodies.search_nasa_images) :
          Commit(search_nasa_images(Ctx0, a, out), "search_nasa_images", a,
                 ImageCacheFile(a))

\* cache_age.hours: a timedelta has no attribute 'hours'
get_space_weather(c, out) ==
    IF "space_weather.json" \in DOMAIN c.fs
    THEN [Step(c, "lookup") EXCEPT !.result = Raise("AttributeError")]
    ELSE FetchAndStore(c, "get_space_weather", EmptyDir, "space_weather.json",
                       [url |-> base_url.nasa \o "/DONKI/WSJ",
                        params |-> [api_key |-> client.api_key]],
                       out, PyNone, "NASA Space Weather API error")

NASA_get_space_weather ==
    /\ client.provider = "nasa"
    /\ \E out \in Outcomes(Bodies.get_space_weather) :
          Commit(get_space_weather(Ctx0, out), "get_space_weather", EmptyDir,
                 "space_weather.json")

ImagePath(image_url) == Md5Hex(image_url) \o ".jpg"

download_image(c, image_url, out) ==
    IF ImagePath(image_url) \in DOMAIN c.fs
    THEN [Step(Step(c, "lookup"), "hit") EXCEPT
             !.result = Return(PyStr(ImagePath(image_url)))]
    ELSE StreamToFile(Step(Step(c, "lookup"), "miss"), "download_image",
                      [image_url |-> image_url], ImagePath(image_url), image_url, out,
                      "Error downloading image")

NASA_download_image ==
    /\ client.provider = "nasa"
    /\ \E u \in Args.download_image : \E out \in StreamOutcomes :
          Commit(download_image(Ctx0, u, out), "download_image", [image_url |-> u],
                 ImagePath(u))

MissionCacheFile(mission_name) == "mission_apollo_11.json"

\* the first project whose title contains the mission name, else None
FindMission(projects, mission_name) ==
    LET hits == {i \in 1..Len(projects) : Contains(Get(projects[i], "title", ""), mission_name)}
    IN  IF hits = {} THEN PyNone
        ELSE PyDict(projects[CHOOSE i \in hits : \A j \in hits : i <= j])

get_space_mission_data(c, mission_name, out) ==
    LET f == MissionCacheFile(mission_name)
        args == [mission_name |-> mission_name]
    IN  IF IsFresh(c.fs, f, TTL_MONTH) THEN ReadCached(c, f)
        ELSE LET c1 == Request(Step(Step(c, "lookup"), "miss"),
                               [url |-> base_url.nasa \o "/techport/api/projects",
                                params |-> [api_key |-> client.api_key]], out)
                 mission_data == FindMission(Get(out.body.value, "projects", <<>>),
                                             mission_name)
             IN  IF Failed(out) THEN LogAndReturn(c1, "NASA TechPort API error", PyNone)
                 ELSE IF mission_data = PyNone THEN [c1 EXCEPT !.result = Return(PyNone)]
                 ELSE IF out.disk = "torn"
                 THEN [Put(c1, "get_space_mission_data", args, f, TornText, Raise("OSError"))
                          EXCEPT !.result = Raise("OSError")]
                 ELSE [Put(c1, "get_space_mission_data", args, f, JsonDump(mission_data),
                           Return(mission_data)) EXCEPT !.result = Return(mission_data)]

NASA_get_space_mission_data ==
    /\ client.provider = "nasa"
    /\ \E m \in Args.get_space_mission_data : \E out \in Outcomes(Bodies.get_space_mission_data) :
          Commit(get_space_mission_data(Ctx0, m, out), "get_space_mission_data",
                 [mission_name |-> m], MissionCacheFile(m))

\* ------------------------------------------------------------ OpenLibrary

BookSearchCacheFile(a) == "search_" \o Md5Hex(a.query) \o ".json"

MatureKeywords == {"adult", "mature", "teen", "young adult"}
YoungGrades == 3

\* keyword in title or any(keyword in subject.lower() for subject in subjects)
IsMature(book) ==
    \E k \in MatureKeywords :
       \/ Contains(Get(book, "title", ""), k)
       \/ \E i \in 1..Len(Get(book, "subject", <<>>)) : Contains(book.subject[i], k)

_filter_by_grade_level(books, grade_level) ==
    IF grade_level = NoGrade THEN books
    ELSE SelectSeq(books, LAMBDA b : ~(grade_level <= YoungGrades /\ IsMature(b)))

search_books(c, a, out) ==
    LET r == CacheThenFetch(c, "search_books", a, BookSearchCacheFile(a), TTL_WEEK,
                   [url |-> base_url.openlibrary \o "/search.json",
                    params |-> [q |-> a.query, limit |-> ToString(a.limit)]],
                   out, PyList(<<>>), "OpenLibrary search error")
    IN  IF Loaded(r)
        THEN Finish(r, BookSearchCacheFile(a),
                    Return(PyList(_filter_by_grade_level(
                        Get(r.result.val.value, "docs", <<>>), a.grade_level))))
        ELSE r

OL_search_books ==
    /\ client.provider = "openlibrary"
    /\ \E a \in Args.search_books : \E out \in Outcomes(Bodies.search_books) :
          Commit(search_books(Ctx0, a, out), "search_books", a, BookSearchCacheFile(a))

BookCacheFile(book_id) == "book_" \o book_id \o ".json"

get_book_details(c, book_id, out) ==
    CacheThenFetch(c, "get_book_details", [book_id |-> book_id], BookCacheFile(book_id),
                   TTL_MONTH,
                   [url |-> base_url.openlibrary \o "/works/" \o book_id \o ".json", params |-> EmptyDir],
                   out, PyNone, "OpenLibrary book details error")

OL_get_book_details ==
    /\ client.provider = "openlibrary"
    /\ \E id \in Args.get_book_details : \E out \in Outcomes(Bodies.get_book_details) :
          Commit(get_book_details(Ctx0, id, out), "get_book_details", [book_id |-> id],
                 BookCacheFile(id))

AuthorCacheFile(author_id) == "author_" \o author_id \o ".json"

get_author_details(c, author_id, out) ==
    CacheThenFetch(c, "get_author_details", [author_id |-> author_id],
                   AuthorCacheFile(author_id), TTL_MONTH,
                   [url |-> base_url.openlibrary \o "/authors/" \o author_id \o ".json",
                    params |-> EmptyDir],
                   out, PyNone, "OpenLibrary author details error")

OL_get_author_details ==
    /\ client.provider = "openlibrary"
    /\ \E id \in Args.get_author_details : \E out \in Outcomes(Bodies.get_author_details) :
          Commit(get_author_details(Ctx0, id, out), "get_author_details",
                 [author_id |-> id], AuthorCacheFile(id))

SubjectCacheFile(a) == "subject_" \o a.subject \o ".json"

get_subject_books(c, a, out) ==
    LET r == CacheThenFetch(c, "get_subject_books", a, SubjectCacheFile(a), TTL_WEEK,
                   [url |-> base_url.openlibrary \o "/subjects/" \o a.subject \o ".json",
                    params |-> EmptyDir],
                   out, PyList(<<>>), "OpenLibrary subject search error")
    IN  IF Loaded(r)
        THEN Finish(r, SubjectCacheFile(a),
                    Return(PyList(Take(_filter_by_grade_level(
                        Get(r.result.val.value, "works", <<>>), a.grade_level), a.limit))))
        ELSE r

OL_get_subject_books ==
    /\ client.provider = "openlibrary"
    /\ \E a \in Args.get_subject_books : \E out \in Outcomes(Bodies.get_subject_books) :
          Commit(get_subject_books(Ctx0, a, out), "get_subject_books", a,
                 SubjectCacheFile(a))

get_book_cover_url(a) ==
    "https://covers.openlibrary.org/b/id/" \o a.book_id \o "-" \o a.size \o ".jpg"
CoverPath(a) == "cover_" \o a.book_id \o "_" \o a.size \o ".jpg"

download_book_cover(c, a, out) ==
    IF CoverPath(a) \in DOMAIN c.fs
    THEN [Step(Step(c, "lookup"), "hit") EXCEPT !.result = Return(PyStr(CoverPath(a)))]
    ELSE StreamToFile(Step(Step(c, "lookup"), "miss"), "download_book_cover", a,
                      CoverPath(a), get_book_cover_url(a), out, "Error downloading cover")

OL_download_book_cover ==
    /\ client.provider = "openlibrary"
    /\ \E a \in Args.download_book_cover : \E out \in StreamOutcomes :
          Commit(download_book_cover(Ctx0, a, out), "download_book_cover", a, CoverPath(a))

\* books = search_books(book_title, limit=1); if not books: return None
\* book_details = get_book_details(book.get('key', '')); return lesson_data
create_reading_lesson(c, a, outs) ==
    LET c1 == search_books(c, [query |-> a.book_title, limit |-> 1,
                               grade_level |-> NoGrade], outs[1])
        books == c1.result.val.value
        book == books[1]
        c2 == get_book_details(c1, Get(book, "key", ""), outs[2])
    IN  IF c1.result.kind = "raise" THEN c1
        ELSE IF books = <<>> THEN [c1 EXCEPT !.result = Return(PyNone)]
        ELSE IF c2.result.kind = "raise" THEN c2
        ELSE [c2 EXCEPT !.result = Return(PyDict(
                 [title |-> "Reading: " \o Get(book, "title", a.book_title),
                  subject |-> "reading", grade_level |-> a.grade_level,
                  content_type |-> "openlibrary",
                  book_data |-> book, book_details |-> c2.result.val,
                  estimated_time |-> 45, xp_value |-> 30]))]

OL_create_reading_lesson ==
    /\ client.provider = "openlibrary"
    /\ \E a \in Args.create_reading_lesson :
       \E o1 \in Outcomes(Bodies.search_books) :
       \E o2 \in Outcomes(Bodies.get_book_details) :
          Commit(create_reading_lesson(Ctx0, a, <<o1, o2>>), "create_reading_lesson", a,
                 BookSearchCacheFile([query |-> a.book_title]))

\* ----------------------------------------------------------- Khan Academy

_process_video(video) ==
    [id |-> Get(video, "id", None), title |-> Get(video, "title", None),
     description |-> Get(video, "description", None),
     duration |-> Get(video, "duration", None),
     thumbnail |-> Get(video, "thumbnail_url", None), url |-> Get(video, "url", None),
     subject |-> Get(video, "subject", None),
     grade_level |-> Get(video, "grade_level", None)]

_process_videos(videos) ==
    PyList([i \in 1..Len(videos) |-> _process_video(videos[i])])

_process_exercise(exercise) ==
    [id |-> Get(exercise, "id", None), title |-> Get(exercise, "title", None),
     description |-> Get(exercise, "description", None),
     type |-> Get(exercise, "type", None), difficulty |-> Get(exercise, "difficulty", None),
     subject |-> Get(exercise, "subject", None)]

_process_exercises(exercises) ==
    PyList([i \in 1..Len(exercises) |-> _process_exercise(exercises[i])])

VideoSearchCacheFile(a) ==
    "search_" \o Md5Hex(a.topic \o "_" \o Str(a.grade_level)) \o ".json"

\* read of the search slot after a failed request; nothing checks its age
_get_cached_videos(c, a) ==
    LET f == VideoSearchCacheFile(a)
    IN  IF f \in DOMAIN c.fs
        THEN ReadCached(c, f)
        ELSE [Step(Step(c, "lookup"), "miss") EXCEPT !.result = Return(PyList(<<>>))]

search_videos(c, a, out) ==
    LET c1 == Request(c, [url |-> base_url.khan \o "/videos",
                          params |-> [query |-> a.topic, limit |-> ToString(a.limit)]
                             @@ (IF a.grade_level # NoGrade
                                 THEN [grade_level |-> ToString(a.grade_level)]
                                 ELSE EmptyDir)], out)
    IN  IF Failed(out)
        THEN _get_cached_videos([Step(c1, "log") EXCEPT
                                    !.log = Append(@, "Khan Academy API error")], a)
        ELSE [c1 EXCEPT !.result = Return(_process_videos(out.body.value))]

\* a request that writes nothing draws no torn-write outcome
PlainOutcomes(bodies) == {TransportError, HttpError} \cup {Ok(b) : b \in bodies}

KHAN_search_videos ==
    /\ client.provider = "khan"
    /\ \E a \in Args.search_videos : \E out \in PlainOutcomes(Bodies.search_videos) :
          Commit(search_videos(Ctx0, a, out), "search_videos", a, VideoSearchCacheFile(a))

get_exercises(c, a, out) ==
    LET c1 == Request(c, [url |-> base_url.khan \o "/exercises",
                          params |-> [subject |-> a.subject]
                             @@ (IF a.grade_level # NoGrade
                                 THEN [grade_level |-> ToString(a.grade_level)]
                                 ELSE EmptyDir)], out)
    IN  IF Failed(out)
        THEN LogAndReturn(c1, "Error fetching exercises", PyList(<<>>))
        ELSE [c1 EXCEPT !.result = Return(_process_exercises(out.body.value))]

KHAN_get_exercises ==
    /\ client.provider = "khan"
    /\ \E a \in Args.get_exercises : \E out \in PlainOutcomes(Bodies.get_exercises) :
          Commit(get_exercises(Ctx0, a, out), "get_exercises", a, NoFile)

VideoCacheFile(video_id) == "video_" \o video_id \o ".json"
VideoPath(video_id) == "khan_video_" \o video_id \o ".mp4"

get_video_content(c, video_id, out) ==
    CacheThenFetch(c, "get_video_content", [video_id |-> video_id],
                   VideoCacheFile(video_id), TTL_WEEK,
                   [url |-> base_url.khan \o "/videos/" \o video_id, params |-> EmptyDir],
                   out, PyNone, "Error fetching video")

KHAN_get_video_content ==
    /\ client.provider = "khan"
    /\ \E id \in Args.get_video_content : \E out \in Outcomes(Bodies.get_video_content) :
          Commit(get_video_content(Ctx0, id, out), "get_video_content",
                 [video_id |-> id], VideoCacheFile(id))

\* get_video_content, then the stream of download_urls[quality]; no look at
\* an earlier download
download_video(c, video_id, quality, out, stream) ==
    LET c1 == get_video_content(c, video_id, out)
        d == c1.result.val
        video_url == Get(Get(d.value, "download_urls", EmptyDir), quality, None)
    IN  IF c1.result.kind = "raise" THEN c1
        ELSE IF d.type = "NoneType" THEN [c1 EXCEPT !.result = Return(PyNone)]
        ELSE IF video_url = None THEN [c1 EXCEPT !.result = Return(PyNone)]
        ELSE StreamToFile(c1, "download_video", [video_id |-> video_id],
                          VideoPath(video_id), video_url, stream, "Error downloading video")

KHAN_download_video ==
    /\ client.provider = "khan"
    /\ \E id \in Args.get_video_content : \E out \in Outcomes(Bodies.get_video_content) : \E stream \in StreamOutcomes :
          Commit(download_video(Ctx0, id, "medium", out, stream), "download_video",
                 [video_id |-> id], VideoCacheFile(id))

\* response = session.get(base_url/subjects/<subject>/topics); return response.json()
\* except RequestException: log; return []
_get_subject_topics(c, subject, out) ==
    LET c1 == Request(c, [url |-> base_url.khan \o "/subjects/" \o subject \o "/topics",
                          params |-> EmptyDir], out)
    IN  IF Failed(out)
        THEN LogAndReturn(c1, "Error fetching topics", PyList(<<>>))
        ELSE [c1 EXCEPT !.result = Return(out.body)]

\* videos = search_videos(subject, grade_level, limit=20);
\* exercises = get_exercises(subject, grade_level); topics = _get_subject_topics(subject)
get_subject_content(c, subject, grade_level, outs) ==
    LET c1 == search_videos(c, [topic |-> subject, grade_level |-> grade_level,
                                limit |-> 20], outs[1])
        c2 == get_exercises(c1, [subject |-> subject, grade_level |-> grade_level], outs[2])
        c3 == _get_subject_topics(c2, subject, outs[3])
    IN  IF c1.result.kind = "raise" THEN c1
        ELSE [c3 EXCEPT !.result = Return(PyDict([videos |-> c1.result.val,
                                                   exercises |-> c2.result.val,
                                                   topics |-> c3.result.val]))]

\* a draft whose slices are taken from the wrong ends of the bounds
create_lesson_from_khan_swapped(c, a, outs) ==
    LET c1 == get_subject_content(c, a.subject, a.grade_level, outs)
        content == c1.result.val.value
    IN  IF c1.result.kind = "raise" THEN c1
        ELSE [c1 EXCEPT !.result = Return(PyDict(
                 [title |-> "Khan Academy - " \o a.subject \o " - " \o a.topic,
                  subject |-> a.subject, grade_level |-> a.grade_level,
                  content_type |-> "khan_academy",
                  videos |-> PyList(Take(content.videos.value, 5)),
                  exercises |-> PyList(Take(content.exercises.value, 3)),
                  estimated_time |-> 30, xp_value |-> 15]))]

create_lesson_from_khan(c, a, outs) ==
    LET c1 == get_subject_content(c, a.subject, a.grade_level, outs)
        content == c1.result.val.value
    IN  IF c1.result.kind = "raise" THEN c1
        ELSE [c1 EXCEPT !.result = Return(PyDict(
                 [title |-> "Khan Academy - " \o a.subject \o " - " \o a.topic,
                  subject |-> a.subject, grade_level |-> a.grade_level,
                  content_type |-> "khan_academy",
                  videos |-> PyList(Take(content.videos.value, 3)),
                  exercises |-> PyList(Take(content.exercises.value, 5)),
                  estimated_time |-> 30, xp_value |-> 15]))]

KHAN_create_lesson_from_khan ==
    /\ client.provider = "khan"
    /\ \E a \in Args.create_lesson_from_khan :
       \E o1 \in PlainOutcomes(Bodies.lesson_videos) :
       \E o2 \in PlainOutcomes(Bodies.lesson_exercises) :
       \E o3 \in PlainOutcomes(Bodies._get_subject_topics) :
          Commit(create_lesson_from_khan(Ctx0, a, <<o1, o2, o3>>),
                 "create_lesson_from_khan", a, NoFile)

\* --------------------------------------------------------------- WordsAPI

\* word.lower(), for the words of this model
Lower(word) == IF word = "Happy" THEN "happy" ELSE word

\* the members of educational_words that random.choice draws here
EducationalWords == {"serendipity", "curious"}
WordBodies(word) == {PyDict([word |-> word, results |-> <<[definition |-> "remote"]>>]),
                     PyDict([word |-> word, results |-> <<[definition |-> "remote",
                                                          synonyms |-> <<"glad">>]>>])}
WordCacheFile(word) == "word_" \o Lower(word) \o ".json"

basic_definitions ==
    [happy |-> [word |-> "happy",
                results |-> <<[definition |-> "feeling or showing pleasure or contentment"]>>],
     big |-> [word |-> "big",
              results |-> <<[definition |-> "of considerable size or extent"]>>]]

_get_basic_definition(word) ==
    PyDict(Get(basic_definitions, Lower(word),
               [word |-> word,
                results |-> <<[definition |-> "A word meaning related to " \o word]>>]))

\* get_word_definition without its "if not self.api_key" return
get_word_definition_no_key_check(c, word, out) ==
    CacheThenFetch(c, "get_word_definition", [word |-> word], WordCacheFile(word),
                   TTL_MONTH,
                   [url |-> base_url.words \o "/words/" \o word, params |-> EmptyDir],
                   out, _get_basic_definition(word), "WordsAPI error")

get_word_definition(c, word, out) ==
    LET f == WordCacheFile(word)
    IN  IF IsFresh(c.fs, f, TTL_MONTH) THEN ReadCached(c, f)
        ELSE IF client.api_key = None
        THEN [Step(Step(c, "lookup"), "miss") EXCEPT
                 !.result = Return(_get_basic_definition(word))]
        ELSE FetchAndStore(c, "get_word_definition", [word |-> word], f,
                           [url |-> base_url.words \o "/words/" \o word, params |-> EmptyDir],
                           out, _get_basic_definition(word), "WordsAPI error")

WORDS_get_word_definition ==
    /\ client.provider = "words"
    /\ \E w \in Args.get_word_definition : \E out \in Outcomes(WordBodies(w)) :
          Commit(get_word_definition(Ctx0, w, out), "get_word_definition", [word |-> w],
                 WordCacheFile(w))

\* a word of the day that is drawn anew on every call
get_word_of_the_day_redrawn(c, word, out) ==
    LET c1 == get_word_definition(Step(Step(c, "lookup"), "miss"), word, out)
    IN  IF c1.result.kind = "raise" THEN c1
        ELSE Put(c1, "get_word_of_the_day", EmptyDir, "word_of_day.json",
                 JsonDump(c1.result.val), c1.result)

\* word = random.choice(educational_words); the definition is stored as the
\* word of the day
get_word_of_the_day(c, word, out) ==
    IF IsFresh(c.fs, "word_of_day.json", TTL_DAY)
    THEN ReadCached(c, "word_of_day.json")
    ELSE LET c1 == get_word_definition(Step(Step(c, "lookup"), "miss"), word, out)
         IN  IF c1.result.kind = "raise" THEN c1
             ELSE Put(c1, "get_word_of_the_day", EmptyDir, "word_of_day.json",
                      JsonDump(c1.result.val), c1.result)

WORDS_get_word_of_the_day ==
    /\ client.provider = "words"
    /\ \E w \in EducationalWords : \E out \in Outcomes(WordBodies(w)) :
          Commit(get_word_of_the_day(Ctx0, w, out), "get_word_of_the_day", EmptyDir,
                 "word_of_day.json")

\* ------------------------------------------------------- cache maintenance
\* a clear that globs '*.json' and so leaves the downloaded images and videos
Unlinked_json_only(fsys) ==
    {g \in DOMAIN fsys : fsys[g].kind = "file" /\ fsys[g].text.doc.type # "str"}

\* for file in cache_dir.glob('*'): if file.is_file(): file.unlink()
Unlinked(fsys) == {g \in DOMAIN fsys : fsys[g].kind = "file"}

clear_cache ==
    /\ fs' = [f \in DOMAIN fs \ Unlinked(fs) |-> fs[f]]
    /\ writer' = [f \in DOMAIN fs \ Unlinked(fs) |-> writer[f]]
    /\ call' = [NoCall EXCEPT !.op = "clear_cache", !.log = <<"cache cleared">>,
                               !.pre.exists = (DOMAIN fs # {})]
    /\ UNCHANGED <<client, now, appvars, bakvars>>

\* len(list(cache_dir.glob('*')))
total_files(fsys) == Cardinality(DOMAIN fsys)

get_cache_stats ==
    /\ call' = [NoCall EXCEPT !.op = "get_cache_stats",
                   !.result = Return(PyDict([total_files |-> ToString(total_files(fs))]))]
    /\ UNCHANGED <<client, now, fs, writer, appvars, bakvars>>

\* ---------------------------------------------------------------- the clock
Tick ==
    /\ \E t \in Instants : t > now /\ now' = t
    /\ call' = NoCall
    /\ UNCHANGED <<client, fs, writer, appvars, bakvars>>

\* ------------------------------------------------------ the web application
\* werkzeug.security: the hash is a function of the password, checked by hashing again
generate_password_hash(password) == "pbkdf2:" \o password
check_password_hash(pwhash, password) == pwhash = generate_password_hash(password)

\* the session cookie of a browser that is not logged in
Anonymous == 0

\* the default admin user the start-up block creates when there is none
DefaultAdmin ==
    [username |-> "admin", email |-> "admin@savagehomeschool.com",
     password_hash |-> generate_password_hash("admin123"),
     role |-> "admin", pin |-> None, is_active |-> TRUE,
     status |-> "active", total_xp |-> 0]

\* rows a database may hold besides: a parent, a child and a child marked inactive
OtherUsers ==
    (2 :> [username |-> "mom", email |-> "mom@home",
           password_hash |-> generate_password_hash("secret"),
           role |-> "parent", pin |-> None, is_active |-> TRUE,
           status |-> "active", total_xp |-> 0])
    @@ (3 :> [username |-> "kid", email |-> "kid@home",
              password_hash |-> generate_password_hash("secret"),
              role |-> "child", pin |-> "1234", is_active |-> TRUE,
              status |-> "active", total_xp |-> 0])
    @@ (4 :> [username |-> "sleepy", email |-> "sleepy@home",
              password_hash |-> generate_password_hash("secret"),
              role |-> "child", pin |-> "1234", is_active |-> FALSE,
              status |-> "active", total_xp |-> 0])

UserTables ==
    {(1 :> DefaultAdmin) @@ [i \in S |-> OtherUsers[i]] : S \in SUBSET DOMAIN OtherUsers}

\* load_user: User.query.get(int(user_id)); no row gives the anonymous user
is_authenticated == session \in DOMAIN users
current_user == users[session]

\* the role the request comes with: None for a browser that is not logged in
Requester == IF is_authenticated THEN current_user.role ELSE None

\* activity: the ActivityLog rows the request added
\* awarded: the XP rewards the request recorded
NoReply == [route |-> "none", who |-> None, status |-> 0, page |-> None,
            location |-> None, flash |-> None, json |-> PyNone, form |-> EmptyDir,
            activity |-> <<>>, awarded |-> <<>>]

\* a response of the view function of route, to the requester of this request
Response(route) == [NoReply EXCEPT !.route = route, !.who = Requester]
render_template(route, page) == [Response(route) EXCEPT !.status = 200, !.page = page]
redirect(route, endpoint) == [Response(route) EXCEPT !.status = 302, !.location = endpoint]
jsonify(route, body, form) ==
    [Response(route) EXCEPT !.status = 200, !.json = PyDict(body), !.form = form]
\* an exception no handler catches: Flask answers 500
ServerError(route, exc, form) ==
    [Response(route) EXCEPT !.status = 500, !.json = PyStr(exc), !.form = form]
\* query.get_or_404(id) finds no row
NotFound(route, form) == [Response(route) EXCEPT !.status = 404, !.form = form]
flash(r, message) == [r EXCEPT !.flash = message]

\* db.session.add(ActivityLog(user_id, activity_type, description)); commit
log_activity(r, user_id, activity_type) ==
    [r EXCEPT !.activity = Append(@, [user_id |-> user_id, activity_type |-> activity_type])]

\* @login_required with login_manager.login_view = 'login'
unauthorized(route) == redirect(route, "login")

\* the fields login reads from request.form
LoginForms ==
    [username : {"admin", "mom", "kid", "sleepy", "dad", "nobody"},
     password : {None, "admin123", "secret"},
     pin : {None, "1234", "0000"}]

\* a login that does not look at is_active
login_inactive_too ==
    /\ \E form \in LoginForms :
          LET found == {i \in DOMAIN users : users[i].username = form.username}
              id == CHOOSE i \in found : TRUE
              user == users[id]
              admitted ==
                 /\ found # {}
                 /\ IF user.role = "child" /\ form.pin # None
                    THEN user.pin = form.pin
                    ELSE /\ user.role \in {"admin", "parent"}
                         /\ form.password # None
                         /\ check_password_hash(user.password_hash, form.password)
          IN  IF admitted
              THEN /\ session' = id
                   /\ reply' = [log_activity(redirect("login",
                                     IF user.role = "child" THEN "child_dashboard"
                                     ELSE IF user.role = "admin" THEN "admin_dashboard"
                                     ELSE "parent_dashboard"), id, "login")
                                  EXCEPT !.form = form]
              ELSE /\ session' = session
                   /\ reply' = [flash(render_template("login", "login.html"),
                                      "Invalid credentials") EXCEPT !.form = form]
    /\ UNCHANGED <<users, progress, journal, rewards, cachevars, bakvars>>

\* POST /login
login ==
    /\ \E form \in LoginForms :
          LET found == {i \in DOMAIN users : users[i].username = form.username}
              id == CHOOSE i \in found : TRUE
              user == users[id]
              admitted ==
                 /\ found # {}
                 /\ user.is_active
                 /\ IF user.role = "child" /\ form.pin # None
                    THEN user.pin = form.pin
                    ELSE /\ user.role \in {"admin", "parent"}
                         /\ form.password # None
                         /\ check_password_hash(user.password_hash, form.password)
          IN  IF admitted
              THEN /\ session' = id
                   /\ reply' = [log_activity(redirect("login",
                                     IF user.role = "child" THEN "child_dashboard"
                                     ELSE IF user.role = "admin" THEN "admin_dashboard"
                                     ELSE "parent_dashboard"), id, "login")
                                  EXCEPT !.form = form]
              ELSE /\ session' = session
                   /\ reply' = [flash(render_template("login", "login.html"),
                                      "Invalid credentials") EXCEPT !.form = form]
    /\ UNCHANGED <<users, progress, journal, rewards, cachevars, bakvars>>

\* GET /logout
logout ==
    /\ IF is_authenticated
       THEN /\ session' = Anonymous
            /\ reply' = log_activity(redirect("logout", "index"), session, "logout")
       ELSE session' = session /\ reply' = unauthorized("logout")
    /\ UNCHANGED <<users, progress, journal, rewards, cachevars, bakvars>>

\* a dashboard whose role test lets every logged-in user through
Gated_open(route, roles, view) ==
    IF ~is_authenticated THEN unauthorized(route) ELSE view

\* @login_required, then the role test at the head of a dashboard view
Gated(route, roles, view) ==
    IF ~is_authenticated THEN unauthorized(route)
    ELSE IF current_user.role \notin roles
         THEN flash(redirect(route, "index"), "Access denied")
         ELSE view

\* GET /admin/dashboard
admin_dashboard ==
    /\ reply' = Gated("admin_dashboard", {"admin"},
                      render_template("admin_dashboard", "admin/dashboard.html"))
    /\ UNCHANGED <<users, session, progress, journal, rewards, cachevars, bakvars>>

\* GET /parent/dashboard
parent_dashboard ==
    /\ reply' = Gated("parent_dashboard", {"admin", "parent"},
                      render_template("parent_dashboard", "parent/dashboard.html"))
    /\ UNCHANGED <<users, session, progress, journal, rewards, cachevars, bakvars>>

\* Reward.query.filter_by(user_id=...): Reward has no user_id column
get_user_rewards == Raise("InvalidRequestError")

\* GET /child/dashboard
child_dashboard ==
    /\ reply' = Gated("child_dashboard", {"child"},
                      IF get_user_rewards.kind = "raise"
                      THEN ServerError("child_dashboard", get_user_rewards.val.value, EmptyDir)
                      ELSE render_template("child_dashboard", "child/dashboard.html"))
    /\ UNCHANGED <<users, session, progress, journal, rewards, cachevars, bakvars>>

\* the fields create_user reads from request.form: a form-encoded body with or
\* without a password, and a JSON body, of which request.form holds nothing
UserForms ==
    {[username |-> u, email |-> e, role |-> "child", grade_level |-> "3",
      password |-> pw, pin |-> "5678"] :
        u \in {"newchild", "kid"}, e \in {"newchild@test.com", "kid@home"},
        pw \in {None, "pw"}}
    \cup {[username |-> None, email |-> None, role |-> None, grade_level |-> None,
           password |-> None, pin |-> None]}

\* the keyword arguments the declarative constructor of User accepts
UserColumns ==
    {"id", "username", "email", "password_hash", "role", "grade_level", "avatar_data",
     "pin", "created_at", "last_login", "is_active", "total_xp", "lessons_completed",
     "badges_earned", "current_level", "streak_days", "parent_id", "status"}

\* a create_user without the two "already exists" tests
create_user_unchecked ==
    /\ \E form \in UserForms :
          LET r ==
                IF ~is_authenticated THEN unauthorized("create_user")
                ELSE IF current_user.role # "admin"
                THEN jsonify("create_user",
                             [success |-> FALSE, message |-> "Admin access required"], form)
                ELSE IF form.password = None
                THEN ServerError("create_user", "generate_password_hash(None)", form)
                ELSE IF ~({"username", "email", "first_name", "last_name", "role",
                           "grade_level", "password_hash", "pin", "parent_id", "status"}
                             \subseteq UserColumns)
                THEN ServerError("create_user", "TypeError: invalid keyword argument", form)
                ELSE jsonify("create_user",
                             [success |-> TRUE, message |-> "User created successfully"], form)
              id == 1 + Cardinality(DOMAIN users) + Cardinality(DOMAIN OtherUsers)
              user == [username |-> form.username, email |-> form.email,
                       password_hash |-> generate_password_hash(form.password),
                       role |-> form.role, pin |-> form.pin, is_active |-> TRUE,
                       status |-> "active", total_xp |-> 0]
          IN  /\ reply' = r
              /\ users' = IF r.json.type = "dict" /\ r.json.value.success
                          THEN users @@ (id :> user)
                          ELSE users
    /\ UNCHANGED <<session, progress, journal, rewards, cachevars, bakvars>>

\* POST /api/admin/users
create_user ==
    /\ \E form \in UserForms :
          LET r ==
                IF ~is_authenticated THEN unauthorized("create_user")
                ELSE IF current_user.role # "admin"
                THEN jsonify("create_user",
                             [success |-> FALSE, message |-> "Admin access required"], form)
                ELSE IF \E i \in DOMAIN users : users[i].username = form.username
                THEN jsonify("create_user",
                             [success |-> FALSE, message |-> "Username already exists"], form)
                ELSE IF \E i \in DOMAIN users : users[i].email = form.email
                THEN jsonify("create_user",
                             [success |-> FALSE, message |-> "Email already exists"], form)
                ELSE IF form.password = None
                THEN ServerError("create_user", "generate_password_hash(None)", form)
                ELSE IF ~({"username", "email", "first_name", "last_name", "role",
                           "grade_level", "password_hash", "pin", "parent_id", "status"}
                             \subseteq UserColumns)
                THEN ServerError("create_user", "TypeError: invalid keyword argument", form)
                ELSE jsonify("create_user",
                             [success |-> TRUE, message |-> "User created successfully"], form)
              id == 1 + Cardinality(DOMAIN users) + Cardinality(DOMAIN OtherUsers)
              user == [username |-> form.username, email |-> form.email,
                       password_hash |-> generate_password_hash(form.password),
                       role |-> form.role, pin |-> form.pin, is_active |-> TRUE,
                       status |-> "active", total_xp |-> 0]
          IN  /\ reply' = r
              /\ users' = IF r.json.type = "dict" /\ r.json.value.success
                          THEN users @@ (id :> user)
                          ELSE users
    /\ UNCHANGED <<session, progress, journal, rewards, cachevars, bakvars>>

\* ------------------------------------------------------ user administration
\* a second admin row a database may hold
SecondAdmin ==
    [username |-> "dad", email |-> "dad@home",
     password_hash |-> generate_password_hash("secret"),
     role |-> "admin", pin |-> None, is_active |-> TRUE,
     status |-> "active", total_xp |-> 0]

\* the <int:user_id> the requests come with (one of them of no user)
UserIds == {1, 2, 3, 5, 9}

\* db.session.delete(user); db.session.commit(): the flush sets user_id of the
\* rows of progress, activity_log and reading_log that belong to the user to
\* NULL, which their NOT NULL columns refuse.  Whether the user has such rows
\* is open here, but for the Progress rows the model holds.
Referenced(ids) ==
    IF \E key \in DOMAIN progress : key[1] \in ids THEN {TRUE} ELSE BOOLEAN

\* a delete_user without the test for one's own id
delete_user_self ==
    /\ \E user_id \in UserIds : \E referenced \in Referenced({user_id}) :
          LET form == [user_id |-> user_id]
          IN  IF ~is_authenticated
              THEN reply' = unauthorized("delete_user") /\ users' = users
              ELSE IF current_user.role # "admin"
              THEN /\ reply' = jsonify("delete_user",
                        [success |-> FALSE, message |-> "Admin access required"], form)
                   /\ users' = users
              ELSE IF user_id \notin DOMAIN users
              THEN reply' = NotFound("delete_user", form) /\ users' = users
              ELSE IF referenced
              THEN /\ reply' = ServerError("delete_user", "IntegrityError", form)
                   /\ users' = users
              ELSE /\ users' = [u \in DOMAIN users \ {user_id} |-> users[u]]
                   /\ reply' = jsonify("delete_user",
                        [success |-> TRUE, message |-> "User deleted successfully"], form)
    /\ UNCHANGED <<session, progress, journal, rewards, cachevars, bakvars>>

\* DELETE /api/admin/users/<user_id>
delete_user ==
    /\ \E user_id \in UserIds : \E referenced \in Referenced({user_id}) :
          LET form == [user_id |-> user_id]
          IN  IF ~is_authenticated
              THEN reply' = unauthorized("delete_user") /\ users' = users
              ELSE IF current_user.role # "admin"
              THEN /\ reply' = jsonify("delete_user",
                        [success |-> FALSE, message |-> "Admin access required"], form)
                   /\ users' = users
              ELSE IF user_id \notin DOMAIN users
              THEN reply' = NotFound("delete_user", form) /\ users' = users
              ELSE IF user_id = session
              THEN /\ reply' = jsonify("delete_user",
                        [success |-> FALSE, message |-> "Cannot delete yourself"], form)
                   /\ users' = users
              ELSE IF referenced
              THEN /\ reply' = ServerError("delete_user", "IntegrityError", form)
                   /\ users' = users
              ELSE /\ users' = [u \in DOMAIN users \ {user_id} |-> users[u]]
                   /\ reply' = jsonify("delete_user",
                        [success |-> TRUE, message |-> "User deleted successfully"], form)
    /\ UNCHANGED <<session, progress, journal, rewards, cachevars, bakvars>>

\* data.get('action') and data.get('user_ids', []) of the JSON bodies
BulkForms == [action : {"activate", "deactivate", "delete"},
              user_ids : SUBSET {1, 3, 5} \ {{}}]

\* POST /api/admin/users/bulk-action
bulk_user_action ==
    /\ \E form \in BulkForms :
          LET picked == form.user_ids \cap DOMAIN users
              deleted == picked \ {session}
          IN  IF ~is_authenticated
              THEN reply' = unauthorized("bulk_user_action") /\ users' = users
              ELSE IF current_user.role # "admin"
              THEN /\ reply' = jsonify("bulk_user_action",
                        [success |-> FALSE, message |-> "Admin access required"], form)
                   /\ users' = users
              ELSE IF form.action = "delete"
              THEN \E referenced \in
                         (IF deleted = {} THEN {FALSE} ELSE Referenced(deleted)) :
                      IF referenced
                      THEN /\ reply' = ServerError("bulk_user_action", "IntegrityError", form)
                           /\ users' = users
                      ELSE /\ users' = [u \in DOMAIN users \ deleted |-> users[u]]
                           /\ reply' = jsonify("bulk_user_action",
                                [success |-> TRUE,
                                 message |-> "Bulk action delete completed"], form)
              ELSE /\ users' =
                         [u \in DOMAIN users |->
                             IF u \notin picked THEN users[u]
                             ELSE IF form.action = "activate"
                             THEN [users[u] EXCEPT !.status = "active"]
                             ELSE [users[u] EXCEPT !.status = "inactive"]]
                   /\ reply' = jsonify("bulk_user_action",
                        [success |-> TRUE,
                         message |-> "Bulk action " \o form.action \o " completed"], form)
    /\ UNCHANGED <<session, progress, journal, rewards, cachevars, bakvars>>

\* ------------------------------------------------------------- the lessons
\* the Lesson table, and the ids requests come with (one of them of no lesson)
Lessons == (1 :> [title |-> "Fractions", xp_value |-> 10])
LessonIds == {1, 9}

\* the 'score' field of the form, read with type=float: None (NoScore) when it
\* is absent
NoScore == -1
Scores == {NoScore, 79, 80}


\* Progress(user_id, lesson_id, status): score and attempts take their defaults
NewProgress(status) == [status |-> status, score |-> NoScore, attempts |-> 0]

\* GET /lesson/<lesson_id>
view_lesson ==
    /\ \E l \in LessonIds :
          LET form == [lesson_id |-> l]
              key == <<session, l>>
          IN  IF ~is_authenticated
              THEN reply' = unauthorized("view_lesson") /\ progress' = progress
              ELSE IF l \notin DOMAIN Lessons
              THEN reply' = NotFound("view_lesson", form) /\ progress' = progress
              ELSE /\ progress' = IF key \in DOMAIN progress THEN progress
                                  ELSE (key :> NewProgress("not_started")) @@ progress
                   /\ reply' = [render_template("view_lesson", "lesson/view.html")
                                  EXCEPT !.form = form]
    /\ UNCHANGED <<users, session, journal, rewards, cachevars, bakvars>>

\* GET /lesson/<lesson_id>/start
start_lesson ==
    /\ \E l \in LessonIds :
          LET form == [lesson_id |-> l]
              key == <<session, l>>
          IN  IF ~is_authenticated
              THEN reply' = unauthorized("start_lesson") /\ progress' = progress
              ELSE IF l \notin DOMAIN Lessons
              THEN reply' = NotFound("start_lesson", form) /\ progress' = progress
              ELSE IF key \in DOMAIN progress /\ progress[key].status = "completed"
              THEN /\ progress' = progress
                   /\ reply' = [flash(redirect("start_lesson", "view_lesson"),
                                      "Lesson already completed") EXCEPT !.form = form]
              ELSE /\ key \in DOMAIN progress => progress[key].attempts < MaxAttempts
                   /\ progress' =
                         IF key \notin DOMAIN progress
                         THEN (key :> NewProgress("in_progress")) @@ progress
                         ELSE [progress EXCEPT ![key].status = "in_progress",
                                               ![key].attempts = @ + 1]
                   /\ reply' = [log_activity(redirect("start_lesson", "view_lesson"),
                                             session, "lesson_start")
                                  EXCEPT !.form = form]
    /\ UNCHANGED <<users, session, journal, rewards, cachevars, bakvars>>

\* the keyword arguments the declarative constructor of Reward accepts
RewardColumns ==
    {"id", "name", "description", "category", "xp_cost", "icon", "is_active", "created_at"}

\* an award_xp whose Reward(...) the constructor accepts
award_xp_accepted(r, user_id, xp_amount) ==
    [r EXCEPT !.awarded = Append(@, [user_id |-> user_id, xp |-> xp_amount])]

\* Reward(user_id=..., reward_type='xp', reward_name=..., reward_value=..., description=...)
award_xp(r, user_id, xp_amount) ==
    IF {"user_id", "reward_type", "reward_name", "reward_value", "description"}
          \subseteq RewardColumns
    THEN [r EXCEPT !.awarded = Append(@, [user_id |-> user_id, xp |-> xp_amount])]
    ELSE [Response(r.route) EXCEPT !.status = 500, !.json = PyStr("TypeError"),
                                   !.form = r.form]

\* f'Completed lesson: {lesson.title}'
Reason(l) == "Completed lesson: " \o Lessons[l].title

\* db.session.add(reward); db.session.commit(): the rows award_xp leaves in the
\* Reward table for what the request awarded
Rewarded(r, reason) ==
    IF r.awarded = <<>> THEN rewards
    ELSE rewards @@ (Cardinality(DOMAIN rewards) + 1 :>
                        [user_id |-> r.awarded[1].user_id, reward_type |-> "xp",
                         reward_name |-> "Experience Points",
                         reward_value |-> r.awarded[1].xp, description |-> reason])

\* POST /lesson/<lesson_id>/complete
complete_lesson ==
    /\ \E l \in LessonIds : \E score \in Scores :
          LET form == [lesson_id |-> l, score |-> score]
              key == <<session, l>>
              status == IF score >= 80 THEN "completed" ELSE "failed"
              done == [jsonify("complete_lesson",
                               [status |-> "success", message |-> "Lesson completed"], form)
                         EXCEPT !.form = form]
          IN  IF ~is_authenticated
              THEN /\ reply' = unauthorized("complete_lesson")
                   /\ UNCHANGED <<progress, rewards>>
              ELSE IF l \notin DOMAIN Lessons
              THEN /\ reply' = NotFound("complete_lesson", form)
                   /\ UNCHANGED <<progress, rewards>>
              ELSE IF key \notin DOMAIN progress
              THEN /\ reply' = [flash(redirect("complete_lesson", "view_lesson"),
                                      "Lesson not started") EXCEPT !.form = form]
                   /\ UNCHANGED <<progress, rewards>>
              ELSE IF score = NoScore
              THEN /\ reply' = ServerError("complete_lesson", "TypeError", form)
                   /\ UNCHANGED <<progress, rewards>>
              ELSE /\ progress' = [progress EXCEPT ![key].status = status,
                                                   ![key].score = score]
                   /\ reply' =
                         IF status = "completed"
                         THEN LET r == award_xp(done, session, Lessons[l].xp_value)
                              IN  IF r.status = 500 THEN r
                                  ELSE log_activity(r, session, "lesson_complete")
                         ELSE log_activity(done, session, "lesson_failed")
                   /\ rewards' = Rewarded(reply', Reason(l))
    /\ UNCHANGED <<users, session, journal, cachevars, bakvars>>

\* ------------------------------------------------------------- the rewards
\* the XP a mystery reward costs
MysteryCost == 50

\* the Reward rows a database may hold: none, one, or two
RewardRows ==
    (1 :> [name |-> "Sticker", description |-> "A sticker", icon |-> "star", xp_cost |-> 30])
    @@ (2 :> [name |-> "Game time", description |-> "30 minutes", icon |-> "game",
              xp_cost |-> 60])
RewardTables == {[i \in S |-> RewardRows[i]] : S \in {{}, {1}, {1, 2}}}

\* data.get('reward_id') of the JSON bodies purchase_reward is sent
RewardIds == {1, 2, 9}

\* the total_xp the child's row starts with
StartXP == {0, 49, 50, 100}

\* a purchase that does not compare total_xp with the cost
purchase_reward_unchecked ==
    /\ \E reward_id \in RewardIds :
          LET form == [reward_id |-> reward_id]
              refuse(message) ==
                 jsonify("purchase_reward", [success |-> FALSE, message |-> message], form)
          IN  IF ~is_authenticated
              THEN reply' = unauthorized("purchase_reward") /\ users' = users
              ELSE IF current_user.role # "child"
              THEN /\ reply' = refuse("Only children can purchase rewards")
                   /\ users' = users
              ELSE IF reward_id \notin DOMAIN rewards
              THEN reply' = refuse("Reward not found") /\ users' = users
              ELSE /\ users' = [users EXCEPT ![session].total_xp =
                                                 @ - rewards[reward_id].xp_cost]
                   /\ reply' = jsonify("purchase_reward",
                                       [success |-> TRUE,
                                        message |-> "Reward purchased successfully"], form)
    /\ UNCHANGED <<session, progress, journal, rewards, cachevars, bakvars>>

\* POST /api/purchase_reward
purchase_reward ==
    /\ \E reward_id \in RewardIds :
          LET form == [reward_id |-> reward_id]
              refuse(message) ==
                 jsonify("purchase_reward", [success |-> FALSE, message |-> message], form)
          IN  IF ~is_authenticated
              THEN reply' = unauthorized("purchase_reward") /\ users' = users
              ELSE IF current_user.role # "child"
              THEN /\ reply' = refuse("Only children can purchase rewards")
                   /\ users' = users
              ELSE IF reward_id \notin DOMAIN rewards
              THEN reply' = refuse("Reward not found") /\ users' = users
              ELSE IF current_user.total_xp < rewards[reward_id].xp_cost
              THEN reply' = refuse("Not enough XP") /\ users' = users
              ELSE /\ users' = [users EXCEPT ![session].total_xp =
                                                 @ - rewards[reward_id].xp_cost]
                   /\ reply' = jsonify("purchase_reward",
                                       [success |-> TRUE,
                                        message |-> "Reward purchased successfully"], form)
    /\ UNCHANGED <<session, progress, journal, rewards, cachevars, bakvars>>

\* random.choice(rewards) if rewards else None: the rewards it may return (none
\* at all stands for None)
get_random_reward == DOMAIN rewards

\* POST /api/mystery_reward.  With an empty Reward table reward is None and
\* reward.id raises before the commit: the session is rolled back.
mystery_reward ==
    /\ LET refuse(message) ==
              jsonify("mystery_reward", [success |-> FALSE, message |-> message], EmptyDir)
       IN  IF ~is_authenticated
           THEN reply' = unauthorized("mystery_reward") /\ users' = users
           ELSE IF current_user.role # "child"
           THEN /\ reply' = refuse("Only children can get mystery rewards")
                /\ users' = users
           ELSE IF current_user.total_xp < MysteryCost
           THEN reply' = refuse("Not enough XP") /\ users' = users
           ELSE IF get_random_reward = {}
           THEN /\ reply' = ServerError("mystery_reward", "AttributeError", EmptyDir)
                /\ users' = users
           ELSE \E reward \in get_random_reward :
                   /\ users' = [users EXCEPT ![session].total_xp = @ - MysteryCost]
                   /\ reply' = jsonify("mystery_reward",
                                       [success |-> TRUE,
                                        reward |-> [name |-> rewards[reward].name,
                                                    description |-> rewards[reward].description,
                                                    icon |-> rewards[reward].icon]],
                                       EmptyDir)
    /\ UNCHANGED <<session, progress, journal, rewards, cachevars, bakvars>>

\* ------------------------------------------------------------- the journal
\* the JournalEntry rows the model lets the table hold
MaxEntries == 2

\* title, content, tags and mood of request.form: a filled form, and an empty
\* one, for which the handlers take their defaults
JournalForms ==
    {[title |-> "Monday", content |-> "text", tags |-> "school", mood |-> "happy"],
     [title |-> "", content |-> "", tags |-> "", mood |-> "neutral"]}

\* the <int:entry_id> the requests come with (one of them of no entry)
EntryIds == {1, 2, 9}

\* the primary key the table gives the next row
NextEntryId == IF DOMAIN journal = {} THEN 1
               ELSE 1 + CHOOSE i \in DOMAIN journal : \A j \in DOMAIN journal : j <= i

\* JournalEntry(user_id=, title=, content=, tags=, mood=, is_draft=); by: the
\* route that added the row
JournalEntry(user_id, form, is_draft, by) ==
    [user_id |-> user_id, title |-> form.title, content |-> form.content,
     tags |-> form.tags, mood |-> form.mood, is_draft |-> is_draft, by |-> by]

\* JournalEntry.query.filter_by(user_id=user_id, is_draft=True)
Drafts(table, user_id) ==
    {i \in DOMAIN table : table[i].user_id = user_id /\ table[i].is_draft}

\* POST /api/journal/entry
create_journal_entry ==
    /\ Cardinality(DOMAIN journal) < MaxEntries
    /\ \E f \in JournalForms : \E is_draft \in {"false", "true"} :
          LET form == [title |-> f.title, content |-> f.content, tags |-> f.tags,
                       mood |-> f.mood, is_draft |-> is_draft]
              refuse(message) ==
                 jsonify("create_journal_entry",
                         [success |-> FALSE, message |-> message], form)
          IN  IF ~is_authenticated
              THEN reply' = unauthorized("create_journal_entry") /\ journal' = journal
              ELSE IF current_user.role # "child"
              THEN /\ reply' = refuse("Only children can create journal entries")
                   /\ journal' = journal
              ELSE IF form.content = ""
              THEN reply' = refuse("Content is required") /\ journal' = journal
              ELSE /\ journal' = journal @@
                         (NextEntryId :> JournalEntry(session, f, is_draft = "true",
                                                      "create_journal_entry"))
                   /\ reply' = jsonify("create_journal_entry",
                                  [success |-> TRUE,
                                   message |-> "Journal entry created successfully"], form)
    /\ UNCHANGED <<users, session, progress, rewards, cachevars, bakvars>>

\* a save that adds a new draft every time
save_journal_draft_added ==
    /\ Cardinality(DOMAIN journal) < MaxEntries
    /\ \E form \in JournalForms :
          IF ~is_authenticated
          THEN reply' = unauthorized("save_journal_draft") /\ journal' = journal
          ELSE IF current_user.role # "child"
          THEN /\ reply' = jsonify("save_journal_draft",
                    [success |-> FALSE, message |-> "Only children can save drafts"], form)
               /\ journal' = journal
          ELSE /\ journal' = journal @@
                     (NextEntryId :> JournalEntry(session, form, TRUE,
                                                  "save_journal_draft"))
               /\ reply' = jsonify("save_journal_draft",
                              [success |-> TRUE, message |-> "Draft saved successfully"],
                              form)
    /\ UNCHANGED <<users, session, progress, rewards, cachevars, bakvars>>

\* POST /api/journal/draft.  first() has no ORDER BY: of several drafts it may
\* return any.
save_journal_draft ==
    /\ Cardinality(DOMAIN journal) < MaxEntries \/ Drafts(journal, session) # {}
    /\ \E form \in JournalForms :
          IF ~is_authenticated
          THEN reply' = unauthorized("save_journal_draft") /\ journal' = journal
          ELSE IF current_user.role # "child"
          THEN /\ reply' = jsonify("save_journal_draft",
                    [success |-> FALSE, message |-> "Only children can save drafts"], form)
               /\ journal' = journal
          ELSE /\ IF Drafts(journal, session) # {}
                  THEN \E draft \in Drafts(journal, session) :
                          journal' = [journal EXCEPT ![draft].title = form.title,
                                                     ![draft].content = form.content,
                                                     ![draft].tags = form.tags,
                                                     ![draft].mood = form.mood]
                  ELSE journal' = journal @@
                          (NextEntryId :> JournalEntry(session, form, TRUE,
                                                       "save_journal_draft"))
               /\ reply' = jsonify("save_journal_draft",
                              [success |-> TRUE, message |-> "Draft saved successfully"],
                              form)
    /\ UNCHANGED <<users, session, progress, rewards, cachevars, bakvars>>

\* the 'entry' of the body get_journal_entry answers with
EntryView(entry_id) ==
    [id |-> entry_id, title |-> journal[entry_id].title,
     content |-> journal[entry_id].content, tags |-> journal[entry_id].tags,
     mood |-> journal[entry_id].mood]

\* a get_journal_entry that lets a parent read as well
get_journal_entry_parent ==
    /\ \E entry_id \in EntryIds :
          LET form == [entry_id |-> entry_id]
          IN  reply' =
                 IF ~is_authenticated THEN unauthorized("get_journal_entry")
                 ELSE IF entry_id \notin DOMAIN journal
                 THEN NotFound("get_journal_entry", form)
                 ELSE IF /\ journal[entry_id].user_id # session
                         /\ current_user.role \notin {"admin", "parent"}
                 THEN jsonify("get_journal_entry",
                              [success |-> FALSE, message |-> "Access denied"], form)
                 ELSE jsonify("get_journal_entry",
                              [success |-> TRUE, entry |-> EntryView(entry_id)], form)
    /\ UNCHANGED <<users, session, progress, journal, rewards, cachevars, bakvars>>

\* GET /api/journal/entry/<entry_id>
get_journal_entry ==
    /\ \E entry_id \in EntryIds :
          LET form == [entry_id |-> entry_id]
          IN  reply' =
                 IF ~is_authenticated THEN unauthorized("get_journal_entry")
                 ELSE IF entry_id \notin DOMAIN journal
                 THEN NotFound("get_journal_entry", form)
                 ELSE IF /\ journal[entry_id].user_id # session
                         /\ current_user.role # "admin"
                 THEN jsonify("get_journal_entry",
                              [success |-> FALSE, message |-> "Access denied"], form)
                 ELSE jsonify("get_journal_entry",
                              [success |-> TRUE, entry |-> EntryView(entry_id)], form)
    /\ UNCHANGED <<users, session, progress, journal, rewards, cachevars, bakvars>>

\* DELETE /api/journal/entry/<entry_id>
delete_journal_entry ==
    /\ \E entry_id \in EntryIds :
          LET form == [entry_id |-> entry_id]
          IN  IF ~is_authenticated
              THEN reply' = unauthorized("delete_journal_entry") /\ journal' = journal
              ELSE IF entry_id \notin DOMAIN journal
              THEN reply' = NotFound("delete_journal_entry", form) /\ journal' = journal
              ELSE IF /\ journal[entry_id].user_id # session
                      /\ current_user.role # "admin"
              THEN /\ reply' = jsonify("delete_journal_entry",
                                  [success |-> FALSE, message |-> "Access denied"], form)
                   /\ journal' = journal
              ELSE /\ journal' = [i \in DOMAIN journal \ {entry_id} |-> journal[i]]
                   /\ reply' = jsonify("delete_journal_entry",
                                  [success |-> TRUE,
                                   message |-> "Entry deleted successfully"], form)
    /\ UNCHANGED <<users, session, progress, rewards, cachevars, bakvars>>

\* ------------------------------------------------------------ the backup job
\* The scheduler runs scheduled_backup on its own thread while provider calls
\* write under uploads/; both are followed statement by statement.
NoWrite == [file |-> NoFile, body |-> PyNone]
Idle == [pc |-> "idle", todo |-> {}, log |-> <<>>]

\* the text of savage_homeschool.db
Database == [wellformed |-> TRUE, doc |-> PyStr("savage_homeschool.db")]

\* f'uploads/{arcname}' of a file of the NASA cache directory
ArcName(f) == "uploads/nasa/" \o f

\* get_apod after a miss and a 2xx response: open(cache_file, 'w') truncates the
\* file, and what json.dump writes stays in the buffer until the file is closed
get_apod_open ==
    /\ inflight = NoWrite
    /\ \E d \in Args.get_apod : \E b \in Bodies.get_apod :
          /\ ~IsFresh(fs, ApodCacheFile(d), TTL_DAY)
          /\ fs' = (ApodCacheFile(d) :> File(TornText)) @@ fs
          /\ inflight' = [file |-> ApodCacheFile(d), body |-> b]
    /\ UNCHANGED <<client, now, call, writer, appvars, archive, job, threads>>

\* json.dump(apod_data, f) and the end of the with block
get_apod_dump ==
    /\ inflight # NoWrite
    /\ fs' = (inflight.file :> File(JsonDump(inflight.body))) @@ fs
    /\ inflight' = NoWrite
    /\ UNCHANGED <<client, now, call, writer, appvars, archive, job, threads>>

\* scheduled_backup calls create_system_backup: the zip is opened and the
\* database written to it
backup_open ==
    /\ job.pc \in {"idle", "done", "failed"}
    /\ archive' = ("database.db" :> Database)
    /\ job' = [pc |-> "walk", todo |-> {}, log |-> <<>>]
    /\ UNCHANGED <<cachevars, appvars, inflight, threads>>

\* os.walk('uploads') lists the files the directory holds at that instant
backup_walk ==
    /\ job.pc = "walk"
    /\ job' = [job EXCEPT !.pc = "copy", !.todo = DOMAIN fs]
    /\ UNCHANGED <<cachevars, appvars, archive, inflight, threads>>

\* a copy that waits until no cache write is open
backup_write_locked ==
    /\ inflight = NoWrite
    /\ job.pc = "copy"
    /\ \E f \in job.todo :
          /\ archive' = (ArcName(f) :> fs[f].text) @@ archive
          /\ job' = [job EXCEPT !.todo = @ \ {f}]
    /\ UNCHANGED <<cachevars, appvars, inflight, threads>>

\* backup_zip.write(file_path, f'uploads/{arcname}'): the bytes the file holds now
backup_write ==
    /\ job.pc = "copy"
    /\ \E f \in job.todo :
          IF f \in DOMAIN fs
          THEN /\ archive' = (ArcName(f) :> fs[f].text) @@ archive
               /\ job' = [job EXCEPT !.todo = @ \ {f}]
          ELSE /\ archive' = archive
               /\ job' = [pc |-> "failed", todo |-> {},
                          log |-> <<"Scheduled backup failed">>]
    /\ UNCHANGED <<cachevars, appvars, inflight, threads>>

\* the zip is closed and scheduled_backup logs
backup_close ==
    /\ job.pc = "copy"
    /\ job.todo = {}
    /\ job' = [pc |-> "done", todo |-> {},
               log |-> <<"Scheduled backup completed successfully">>]
    /\ UNCHANGED <<cachevars, appvars, archive, inflight, threads>>

\* ------------------------------------------- search_content, step by step
\* app.run serves every request on a thread of its own.  Two requests call
\* search_content on the one cache directory; each call is followed from
\* statement to statement, with the other free to run in between.
Workers == {"w1", "w2"}

NoThread == [at |-> "Idle", args |-> PyNone, data |-> PyNone, hit |-> FALSE,
             log |-> <<>>, result |-> Return(PyNone)]
NoThreads == [w \in Workers |-> NoThread]

\* the calls that are between open(cache_file, 'w') and the end of the with block
\* on file f
Writing(f) == {w \in Workers : /\ threads[w].at = "CachePut"
                               /\ SearchCacheFile(threads[w].args) = f}

\* search_content(query, subject, grade_level, limit) is entered
Call(w) ==
    /\ threads[w].at \in {"Idle", "Return", "ReturnEmpty", "Raised"}
    /\ \E a \in Args.search_content :
          threads' = [threads EXCEPT ![w] = [NoThread EXCEPT !.at = "CacheLookup",
                                                             !.args = a]]
    /\ UNCHANGED <<cachevars, appvars, archive, job, inflight>>

\* if cache_file.exists() and cache_age.days < 7: json.load(f) and return
Lookup(w) ==
    LET f == SearchCacheFile(threads[w].args)
    IN  /\ threads[w].at = "CacheLookup"
        /\ threads' =
              IF IsFresh(fs, f, TTL_WEEK)
              THEN IF fs[f].text.wellformed
                   THEN [threads EXCEPT ![w].at = "Return", ![w].hit = TRUE,
                            ![w].result = SearchView(JsonLoad(fs[f].text))]
                   ELSE [threads EXCEPT ![w].at = "Raised", ![w].hit = TRUE,
                            ![w].result = Raise("JSONDecodeError")]
              ELSE [threads EXCEPT ![w].at = "MissFetch"]
        /\ UNCHANGED <<cachevars, appvars, archive, job, inflight>>

\* session.get(endpoint, params=params) completes or errors; raise_for_status;
\* data = response.json().  except RequestException: logger.error; return []
Respond(w) ==
    /\ threads[w].at = "MissFetch"
    /\ \E out \in PlainOutcomes(Bodies.search_content) :
          threads' =
             IF Failed(out)
             THEN [threads EXCEPT ![w].at = "ReturnEmpty",
                      ![w].log = <<"CK-12 search error">>,
                      ![w].result = Return(PyList(<<>>))]
             ELSE [threads EXCEPT ![w].at = "FetchSuccess", ![w].data = out.body]
    /\ UNCHANGED <<cachevars, appvars, archive, job, inflight>>

\* open(cache_file, 'w'): the file is created or truncated
Open(w) ==
    /\ threads[w].at = "FetchSuccess"
    /\ fs' = (SearchCacheFile(threads[w].args) :> File(TornText)) @@ fs
    /\ threads' = [threads EXCEPT ![w].at = "CachePut"]
    /\ UNCHANGED <<client, now, call, writer, appvars, archive, job, inflight>>

\* json.dump(data, f) and the end of the with block, then
\* return self._process_content(data.get('content', [])); a write the disk
\* refuses raises OSError out of the call
Dump(w) ==
    /\ threads[w].at = "CachePut"
    /\ \E disk \in {"ok", "torn"} :
          IF disk = "ok"
          THEN /\ fs' = (SearchCacheFile(threads[w].args) :>
                            File(JsonDump(threads[w].data))) @@ fs
               /\ threads' = [threads EXCEPT ![w].at = "Return",
                                 ![w].result = SearchView(threads[w].data)]
          ELSE /\ fs' = (SearchCacheFile(threads[w].args) :> File(TornText)) @@ fs
               /\ threads' = [threads EXCEPT ![w].at = "Raised",
                                 ![w].result = Raise("OSError")]
    /\ UNCHANGED <<client, now, call, writer, appvars, archive, job, inflight>>

sc_call == \E w \in Workers : Call(w)
sc_lookup == \E w \in Workers : Lookup(w)
sc_respond == \E w \in Workers : Respond(w)
sc_open == \E w \in Workers : Open(w)
sc_dump == \E w \in Workers : Dump(w)

\* ------------------------------------------------------------ specification
Providers == {"ck12", "nasa", "openlibrary", "khan", "words"}

\* the clients __init__ can construct for a provider
Clients(p) == [provider : {p},
               api_key : IF p = "nasa" THEN {"DEMO_KEY"}
                         ELSE IF p = "words" THEN {None, "rapidapi-key"} ELSE {None}]

\* a client object is constructed anew on the same cache directory
NewClient ==
    /\ client' \in Clients(client.provider)
    /\ call' = [NoCall EXCEPT !.op = "__init__"]
    /\ UNCHANGED <<now, fs, writer, appvars, bakvars>>

Init ==
    /\ \E p \in Providers : client \in Clients(p)
    /\ now = 0
    /\ fs = EmptyDir
    /\ writer = EmptyDir
    /\ call = NoCall
    /\ users = (1 :> DefaultAdmin)
    /\ session = Anonymous
    /\ reply = NoReply
    /\ progress = EmptyDir
    /\ journal = EmptyDir
    /\ rewards = EmptyDir
    /\ archive = EmptyDir
    /\ job = Idle
    /\ inflight = NoWrite
    /\ threads = NoThreads

Next ==
    \/ CK12_search_content
    \/ CK12_get_content_details
    \/ CK12_get_subjects
    \/ CK12_get_concepts
    \/ CK12_download_content
    \/ NASA_get_apod
    \/ NASA_get_mars_photos
    \/ NASA_get_earth_imagery
    \/ NASA_search_nasa_images
    \/ NASA_get_space_weather
    \/ NASA_download_image
    \/ NASA_get_space_mission_data
    \/ OL_search_books
    \/ OL_get_book_details
    \/ OL_get_author_details
    \/ OL_get_subject_books
    \/ OL_download_book_cover
    \/ OL_create_reading_lesson
    \/ KHAN_search_videos
    \/ KHAN_get_exercises
    \/ KHAN_get_video_content
    \/ KHAN_download_video
    \/ KHAN_create_lesson_from_khan
    \/ WORDS_get_word_definition
    \/ WORDS_get_word_of_the_day
    \/ NewClient
    \/ clear_cache
    \/ get_cache_stats
    \/ Tick

Spec == Init /\ [][Next]_vars

\* one browser session against the application, the database holding the default
\* admin and any of the other users
AppInit ==
    /\ client \in Clients("ck12")
    /\ now = 0
    /\ fs = EmptyDir
    /\ writer = EmptyDir
    /\ call = NoCall
    /\ users \in UserTables
    /\ session = Anonymous
    /\ reply = NoReply
    /\ progress = EmptyDir
    /\ journal = EmptyDir
    /\ rewards = EmptyDir
    /\ archive = EmptyDir
    /\ job = Idle
    /\ inflight = NoWrite
    /\ threads = NoThreads

AppNext ==
    \/ login
    \/ logout
    \/ admin_dashboard
    \/ parent_dashboard
    \/ child_dashboard
    \/ create_user

AppSpec == AppInit /\ [][AppNext]_vars

\* the backup job next to get_apod calls on uploads/nasa
BackupInit ==
    /\ client \in Clients("nasa")
    /\ now = 0
    /\ fs = EmptyDir
    /\ writer = EmptyDir
    /\ call = NoCall
    /\ users = (1 :> DefaultAdmin)
    /\ session = Anonymous
    /\ reply = NoReply
    /\ progress = EmptyDir
    /\ journal = EmptyDir
    /\ rewards = EmptyDir
    /\ archive = EmptyDir
    /\ job = Idle
    /\ inflight = NoWrite
    /\ threads = NoThreads

BackupNext ==
    \/ get_apod_open
    \/ get_apod_dump
    \/ backup_open
    \/ backup_walk
    \/ backup_write
    \/ backup_close
    \/ Tick

BackupSpec == BackupInit /\ [][BackupNext]_vars

\* an admin and a child at their lessons, from one browser
LessonInit ==
    /\ client \in Clients("ck12")
    /\ now = 0
    /\ fs = EmptyDir
    /\ writer = EmptyDir
    /\ call = NoCall
    /\ users = (1 :> DefaultAdmin) @@ (3 :> OtherUsers[3])
    /\ session = Anonymous
    /\ reply = NoReply
    /\ progress = EmptyDir
    /\ journal = EmptyDir
    /\ rewards = EmptyDir
    /\ archive = EmptyDir
    /\ job = Idle
    /\ inflight = NoWrite
    /\ threads = NoThreads

LessonNext ==
    \/ login
    \/ logout
    \/ view_lesson
    \/ start_lesson
    \/ complete_lesson

LessonSpec == LessonInit /\ [][LessonNext]_vars

\* the admin pages, from one browser, on a user table with or without a
\* parent, a child and a second admin
AdminInit ==
    /\ client \in Clients("ck12")
    /\ now = 0
    /\ fs = EmptyDir
    /\ writer = EmptyDir
    /\ call = NoCall
    /\ \E S \in SUBSET {2, 3, 5} :
          users = (1 :> DefaultAdmin)
                     @@ [i \in S |-> IF i = 5 THEN SecondAdmin ELSE OtherUsers[i]]
    /\ session = Anonymous
    /\ reply = NoReply
    /\ progress = EmptyDir
    /\ journal = EmptyDir
    /\ rewards = EmptyDir
    /\ archive = EmptyDir
    /\ job = Idle
    /\ inflight = NoWrite
    /\ threads = NoThreads

AdminNext ==
    \/ login
    \/ logout
    \/ delete_user
    \/ bulk_user_action

AdminSpec == AdminInit /\ [][AdminNext]_vars

\* an admin and a child at the reward shop, from one browser
RewardInit ==
    /\ client \in Clients("ck12")
    /\ now = 0
    /\ fs = EmptyDir
    /\ writer = EmptyDir
    /\ call = NoCall
    /\ \E xp \in StartXP :
          users = (1 :> DefaultAdmin) @@ (3 :> [OtherUsers[3] EXCEPT !.total_xp = xp])
    /\ session = Anonymous
    /\ reply = NoReply
    /\ progress = EmptyDir
    /\ journal = EmptyDir
    /\ rewards \in RewardTables
    /\ archive = EmptyDir
    /\ job = Idle
    /\ inflight = NoWrite
    /\ threads = NoThreads

RewardNext ==
    \/ login
    \/ logout
    \/ purchase_reward
    \/ mystery_reward

RewardSpec == RewardInit /\ [][RewardNext]_vars

\* an admin, a parent and a child at the journal, from one browser
JournalInit ==
    /\ client \in Clients("ck12")
    /\ now = 0
    /\ fs = EmptyDir
    /\ writer = EmptyDir
    /\ call = NoCall
    /\ users = (1 :> DefaultAdmin) @@ (2 :> OtherUsers[2]) @@ (3 :> OtherUsers[3])
    /\ session = Anonymous
    /\ reply = NoReply
    /\ progress = EmptyDir
    /\ journal = EmptyDir
    /\ rewards = EmptyDir
    /\ archive = EmptyDir
    /\ job = Idle
    /\ inflight = NoWrite
    /\ threads = NoThreads

JournalNext ==
    \/ login
    \/ logout
    \/ create_journal_entry
    \/ save_journal_draft
    \/ get_journal_entry
    \/ delete_journal_entry

JournalSpec == JournalInit /\ [][JournalNext]_vars

\* two request threads in search_content on one cache directory
ThreadInit ==
    /\ client \in Clients("ck12")
    /\ now = 0
    /\ fs = EmptyDir
    /\ writer = EmptyDir
    /\ call = NoCall
    /\ users = (1 :> DefaultAdmin)
    /\ session = Anonymous
    /\ reply = NoReply
    /\ progress = EmptyDir
    /\ journal = EmptyDir
    /\ rewards = EmptyDir
    /\ archive = EmptyDir
    /\ job = Idle
    /\ inflight = NoWrite
    /\ threads = NoThreads

ThreadNext ==
    \/ sc_call
    \/ sc_lookup
    \/ sc_respond
    \/ sc_open
    \/ sc_dump
    \/ Tick

ThreadSpec == ThreadInit /\ [][ThreadNext]_vars

\* A statement that can run does run: no thread is held back for ever, and the
\* request a call has issued completes or errors.  Nothing obliges a thread to
\* start a new call, or the clock to move.
ThreadFairness ==
    \A w \in Workers : /\ WF_vars(Lookup(w))
                       /\ WF_vars(Respond(w))
                       /\ WF_vars(Open(w))
                       /\ WF_vars(Dump(w))

ThreadLiveSpec == ThreadSpec /\ ThreadFairness

\* ======================================================================
\* The claims
\* ======================================================================

\* The TTL each cached operation is documented to apply, in hours.
TTLHours ==
    [search_content |-> TTL_WEEK * HoursPerDay,
     get_content_details |-> TTL_MONTH * HoursPerDay,
     get_subjects |-> TTL_MONTH * HoursPerDay,
     get_concepts |-> TTL_WEEK * HoursPerDay,
     get_apod |-> TTL_DAY * HoursPerDay,
     get_mars_photos |-> TTL_WEEK * HoursPerDay,
     get_earth_imagery |-> TTL_DAY * HoursPerDay,
     search_nasa_images |-> TTL_WEEK * HoursPerDay,
     get_space_weather |-> TTL_HOURS,
     get_space_mission_data |-> TTL_MONTH * HoursPerDay,
     search_books |-> TTL_WEEK * HoursPerDay,
     get_book_details |-> TTL_MONTH * HoursPerDay,
     get_author_details |-> TTL_MONTH * HoursPerDay,
     get_subject_books |-> TTL_WEEK * HoursPerDay,
     get_video_content |-> TTL_WEEK * HoursPerDay,
     get_word_definition |-> TTL_MONTH * HoursPerDay,
     get_word_of_the_day |-> TTL_DAY * HoursPerDay]

CachedOps == DOMAIN TTLHours
DownloadOps == {"download_image", "download_book_cover"}
UncachedOps == {"search_videos", "get_exercises", "download_video"}
ProviderOps == CachedOps \cup DownloadOps \cup UncachedOps \cup {"download_content"}

\* the slot the call looked at held an entry younger than the operation's TTL
EntryWithinTTL ==
    /\ call.op \in CachedOps
    /\ call.pre.exists
    /\ call.pre.age < TTLHours[call.op]

EntryExpired ==
    /\ call.op \in CachedOps
    /\ call.pre.exists
    /\ call.pre.age >= TTLHours[call.op]

Returned == call.result.kind = "return"
HasStep(ev) == \E i \in 1..Len(call.trace) : call.trace[i] = ev
SomeRequestFailed ==
    \E i \in 1..Len(call.responses) : call.responses[i].kind # "ok"
AllRequestsSucceeded ==
    /\ call.responses # <<>>
    /\ \A i \in 1..Len(call.responses) :
          call.responses[i].kind = "ok" /\ call.responses[i].disk = "ok"
IsEmptyValue(v) == v.type = "NoneType" \/ (v.type = "list" /\ v.value = <<>>)

\* the call that wrote the slot was this same operation with these same arguments
WrittenByIdenticalCall ==
    /\ call.file \in DOMAIN writer
    /\ writer[call.file].op = call.op
    /\ writer[call.file].args = call.args
    /\ writer[call.file].result.kind = "return"

\* C1: CK12API.search_content(query, subject, grade_level) on an empty cache
\* issues exactly one request carrying the three parameters; a 200 response
\* whose 'content' holds two items yields a normalized list of length 2; an
\* identical call within the 7-day TTL issues no request and returns the same list.
C1_SearchScenario ==
    (call.op = "search_content" /\ call.args.subject # None
       /\ call.args.grade_level # NoGrade) =>
       /\ ~call.pre.exists =>
             /\ Len(call.requests) = 1
             /\ call.requests[1].params.q = call.args.query
             /\ call.requests[1].params.subject = call.args.subject
             /\ call.requests[1].params.grade_level = ToString(call.args.grade_level)
       /\ (/\ AllRequestsSucceeded
           /\ "content" \in DOMAIN call.responses[1].body.value
           /\ Len(call.responses[1].body.value.content) = 2) =>
             /\ Returned
             /\ call.result.val.type = "list"
             /\ Len(call.result.val.value) = 2
             /\ \A i \in 1..2 : call.result.val.value[i].id
                                  = call.responses[1].body.value.content[i].id
       /\ (EntryWithinTTL /\ WrittenByIdenticalCall) =>
             /\ call.requests = <<>>
             /\ call.result = writer[call.file].result

C1_Witness ==
    /\ call.op = "search_content"
    /\ call.args = [query |-> "fractions", subject |-> "math", grade_level |-> 4,
                    limit |-> DefaultLimit]
    /\ EntryWithinTTL /\ WrittenByIdenticalCall
    /\ call.pre.age > 0
    /\ call.requests = <<>>
    /\ Len(call.result.val.value) = 2

\* C2: for every cached operation an entry whose age is not below the TTL is
\* treated as absent: the call issues exactly one request, a successful fetch
\* rewrites the entry, which is fresh again; a younger entry is never re-fetched.
C2_ExpiredEntryIsRefetchedOnce ==
    /\ EntryExpired =>
          /\ Len(call.requests) = 1
          /\ AllRequestsSucceeded =>
                /\ HasStep("put")
                /\ call.file \in DOMAIN fs
                /\ now - fs[call.file].mtime < TTLHours[call.op]
    /\ EntryWithinTTL => call.requests = <<>>

\* C3: a read right after the write of a key, within the TTL, yields the
\* identical payload: a call on an entry written by the same operation with the
\* same arguments returns the value that writing call returned.
C3_ReadAfterWriteIsIdentical ==
    (EntryWithinTTL /\ WrittenByIdenticalCall) => call.result = writer[call.file].result

\* the definition the embedded dictionary gives for a word
StaticDefinition(word) ==
    IF word \in {"Happy", "happy"}
    THEN "feeling or showing pleasure or contentment"
    ELSE "A word meaning related to " \o word

\* C4: a WordsAPI client without api_key never issues a request in
\* get_word_definition or get_word_of_the_day, and with no valid cache entry
\* for the word it returns the embedded dictionary's definition.
C4_NoKeyNoNetwork ==
    (client.provider = "words" /\ client.api_key = None
       /\ call.op \in {"get_word_definition", "get_word_of_the_day"}) =>
       /\ call.requests = <<>>
       /\ (call.op = "get_word_definition" /\ ~EntryWithinTTL) =>
             /\ Returned
             /\ call.result.val.type = "dict"
             /\ call.result.val.value.results[1].definition
                  = StaticDefinition(call.args.word)

C4_Witness ==
    /\ client.provider = "words" /\ client.api_key = None
    /\ call.op = "get_word_definition"
    /\ EntryExpired
    /\ call.requests = <<>>
    /\ call.result.val.value.results[1].definition = StaticDefinition("Happy")

C6_ClearLeavesNoFiles ==
    call.op = "clear_cache" => total_files(fs) = 0

C6_Witness ==
    /\ call.op = "clear_cache"
    /\ call.pre.exists
    /\ total_files(fs) = 0

\* every request of the call was issued after a cache lookup that missed
RequestsFollowMiss ==
    \A i \in 1..Len(call.trace) :
       call.trace[i] = "request" =>
          \E j \in 1..(i - 1) :
             /\ call.trace[j] = "miss"
             /\ \E k \in 1..(j - 1) : call.trace[k] = "lookup"

\* the slot held an entry the operation is documented to serve
ValidEntry ==
    \/ EntryWithinTTL
    \/ call.op \in DownloadOps /\ call.pre.exists

C8_SuccessfulFetchIsPersisted ==
    (call.op \in ProviderOps /\ AllRequestsSucceeded /\ Returned) =>
       /\ HasStep("put")
       /\ call.file \in DOMAIN fs

\* C9: two calls of a search operation whose parameters differ in any component
\* (query, subject, grade_level or limit) never read or write the same cache
\* entry.
C9_KeyCoversEveryParameter ==
    (call.op \in {"search_content", "search_books"}
       /\ call.file \in DOMAIN writer /\ writer[call.file].op = call.op) =>
       writer[call.file].args = call.args

\* C10: a cache file that exists, is within its TTL and cannot be parsed is
\* treated as a miss: the operation goes on to fetch and returns normally.
C10_UnreadableEntryIsAMiss ==
    (EntryWithinTTL /\ ~call.pre.wellformed) =>
       /\ Returned
       /\ Len(call.requests) = 1

\* C11: no provider operation other than clear_cache removes a cache entry: in
\* every step that is not a clear_cache each file of the cache directory is still
\* there afterwards, and its content changes only in a call that wrote that
\* slot again (itself or through the operation it delegates to).
C11_OnlyClearRemoves ==
    [][call'.op # "clear_cache" =>
          \A f \in DOMAIN fs :
             /\ f \in DOMAIN fs'
             /\ fs'[f] # fs[f] =>
                   /\ writer'[f].op \in {call'.op, "get_content_details",
                                         "get_video_content", "get_word_definition",
                                         "search_books", "get_book_details"}
                   /\ \E i \in 1..Len(call'.trace) : call'.trace[i] = "put"]_vars

C11_Witness ==
    /\ call.op = "get_author_details"
    /\ EntryExpired
    /\ SomeRequestFailed
    /\ call.file \in DOMAIN fs
    /\ fs[call.file].mtime < now

Min(a, b) == IF a < b THEN a ELSE b

\* what search_videos and get_exercises gave the lesson helper, from the
\* responses the call received
VideoResult ==
    IF call.responses[1].kind = "ok"
    THEN _process_videos(call.responses[1].body.value).value ELSE <<>>
ExerciseResult ==
    IF call.responses[2].kind = "ok"
    THEN _process_exercises(call.responses[2].body.value).value ELSE <<>>

\* C18: create_lesson_from_khan returns a draft whose 'videos' is the first
\* min(3, n) items of the video search result and whose 'exercises' is the first
\* min(5, m) items of the exercise result, in their order, with estimated_time 30
\* and xp_value 15.
C18_LessonSlices ==
    call.op = "create_lesson_from_khan" =>
       /\ Returned
       /\ LET draft == call.result.val.value
          IN  /\ draft.videos.value = SubSeq(VideoResult, 1, Min(3, Len(VideoResult)))
              /\ draft.exercises.value
                   = SubSeq(ExerciseResult, 1, Min(5, Len(ExerciseResult)))
              /\ draft.estimated_time = 30
              /\ draft.xp_value = 15

C18_Witness ==
    /\ call.op = "create_lesson_from_khan"
    /\ Len(VideoResult) = 4
    /\ Len(ExerciseResult) = 6
    /\ Len(call.result.val.value.videos.value) = 3
    /\ Len(call.result.val.value.exercises.value) = 5
    /\ call.result.val.value.videos.value[3].id = "v3"

LessonOps == {"create_lesson_from_khan", "create_reading_lesson"}

\* C12: every create-lesson helper returns a lesson draft, never None and never
\* an exception, also when every underlying provider call comes back empty; the
\* content fields of the draft are then empty lists.
C12_LessonDraftAlwaysReturned ==
    call.op \in LessonOps =>
       /\ Returned
       /\ call.result.val.type = "dict"
       /\ (call.op = "create_lesson_from_khan"
             /\ \A i \in 1..Len(call.responses) : call.responses[i].kind # "ok") =>
             /\ call.result.val.value.videos.value = <<>>
             /\ call.result.val.value.exercises.value = <<>>

\* C13: an entry written by one client instance is served as a hit, with no
\* request and the same returned value, by a freshly constructed client of the
\* same provider on the same cache directory while the entry is within its TTL:
\* the first call of a new client on such an entry issues no request and returns
\* what the writing call returned.
C13_RestartIsTransparent ==
    [][(/\ call.op = "__init__"
        /\ call'.op \in CachedOps
        /\ call'.pre.exists
        /\ call'.pre.age < TTLHours[call'.op]
        /\ call'.file \in DOMAIN writer
        /\ writer[call'.file].op = call'.op
        /\ writer[call'.file].args = call'.args
        /\ writer[call'.file].result.kind = "return")
         => /\ call'.requests = <<>>
            /\ call'.result = writer[call'.file].result]_vars

\* C14: while a cache entry is within its TTL every call returns the cached
\* value and issues no request, so a changed remote value is not observed; the
\* first call after clear_cache issues a request (a WordsAPI client without
\* api_key has no remote value to ask for).
C14_StaleUntilExpiryOrClear ==
    /\ [](EntryWithinTTL => (call.requests = <<>> /\ Returned))
    /\ [][(/\ call.op = "clear_cache"
           /\ call'.op \in CachedOps
           /\ ~(client.provider = "words" /\ client.api_key = None))
            => call'.requests # <<>>]_vars

\* C15: get_space_weather uses a 6-hour TTL: an existing space_weather.json
\* younger than 6 hours is returned without a request, one of 6 hours or more is
\* fetched again and rewritten.
C15_SpaceWeatherSixHours ==
    (call.op = "get_space_weather" /\ call.pre.exists) =>
       IF call.pre.age < TTL_HOURS
       THEN /\ call.requests = <<>>
            /\ Returned
            /\ call.pre.wellformed => call.result = writer[call.file].result
       ELSE /\ Len(call.requests) = 1
            /\ AllRequestsSucceeded =>
                  (HasStep("put") /\ fs[call.file].mtime = now)

\* the operations that ask the provider for one resource
SingleResourceOps ==
    CachedOps \cup DownloadOps \cup {"search_videos", "get_exercises", "download_content"}

\* C17: there are no retries: a call of a single-resource operation issues at
\* most one request, and no call issues the same request twice, whether the
\* request failed or not.
C17_ZeroRetries ==
    /\ call.op \in SingleResourceOps => Len(call.requests) <= 1
    /\ \A i, j \in 1..Len(call.requests) :
          i # j => call.requests[i] # call.requests[j]

C17_Witness ==
    /\ call.op = "search_nasa_images"
    /\ SomeRequestFailed
    /\ Len(call.requests) = 1
    /\ call.result = Return(PyList(<<>>))
\* ------------------------------------------------- the application's claims
\* the roles each dashboard is for
DashboardRoles ==
    [admin_dashboard |-> {"admin"},
     parent_dashboard |-> {"admin", "parent"},
     child_dashboard |-> {"child"}]

\* C19: a logged-in admin who posts a new child (username and email not yet in
\* use, grade level, pin) to /api/admin/users gets HTTP 200 with a JSON body
\* whose 'status' is 'success', and the user is in the table afterwards.
C19_AdminCreatesUser ==
    [][(/\ reply'.route = "create_user"
        /\ reply'.who = "admin"
        /\ reply'.form.username # None
        /\ reply'.form.role = "child"
        /\ reply'.form.pin # None
        /\ \A i \in DOMAIN users :
              /\ users[i].username # reply'.form.username
              /\ users[i].email # reply'.form.email)
       => /\ reply'.status = 200
          /\ reply'.json.type = "dict"
          /\ "status" \in DOMAIN reply'.json.value
          /\ reply'.json.value.status = "success"
          /\ \E i \in DOMAIN users' : users'[i].username = reply'.form.username]_vars

\* C20: a dashboard page is rendered only to a logged-in user of one of its
\* roles; a request without a session is redirected to the login page, and a
\* logged-in user of another role is redirected to the index, no page rendered.
C20_DashboardsAreRoleGated ==
    reply.route \in DOMAIN DashboardRoles =>
       /\ reply.who = Requester
       /\ reply.page # None => reply.who \in DashboardRoles[reply.route]
       /\ reply.who = None =>
             reply.status = 302 /\ reply.location = "login" /\ reply.page = None
       /\ reply.who \notin DashboardRoles[reply.route] \cup {None} =>
             reply.status = 302 /\ reply.location = "index" /\ reply.page = None

\* a parent asked for the admin dashboard and was sent to the index
C20_Witness ==
    /\ reply.route = "admin_dashboard"
    /\ is_authenticated
    /\ current_user.role = "parent"
    /\ reply.status = 302
    /\ reply.location = "index"

\* C16: the backup job and a provider call's cache write are not coordinated:
\* the copy of a listed file into the archive is never held back by a write
\* that is open, a call is never held back from opening its cache file by a
\* backup that is running, and so the archive can receive the bytes of a file
\* between its truncation and the end of json.dump.
C16_BackupAndWriteInterleave ==
    /\ (job.pc = "copy" /\ job.todo # {}) => ENABLED backup_write
    /\ (inflight = NoWrite /\ \E d \in Args.get_apod : ~IsFresh(fs, ApodCacheFile(d), TTL_DAY))
          => ENABLED get_apod_open
    /\ inflight # NoWrite => ENABLED get_apod_dump

\* the archive being written holds a torn copy of the file get_apod is writing
C16_Witness ==
    /\ job.pc = "copy"
    /\ inflight # NoWrite
    /\ ArcName(inflight.file) \in DOMAIN archive
    /\ ~archive[ArcName(inflight.file)].wellformed
    /\ ~fs[inflight.file].text.wellformed

\* ------------------------------------------------ further provider claims
\* C22: search_videos falls back to the cached videos when the API is down: a
\* search that succeeded, followed by a search with the same topic and grade
\* level whose request fails, returns the videos of the search that succeeded.
C22_FailedSearchFallsBackToCache ==
    [][(/\ call.op = "search_videos"
        /\ call.requests # <<>> /\ AllRequestsSucceeded
        /\ call'.op = "search_videos"
        /\ call'.args = call.args
        /\ \E i \in 1..Len(call'.responses) : Failed(call'.responses[i]))
       => call'.result = call.result]_vars

\* every request of the call failed: in transport, by status, or in mid-stream
EveryRequestFailed ==
    /\ call.responses # <<>>
    /\ \A i \in 1..Len(call.responses) : call.responses[i].kind # "ok"

\* C23: failures are never cached: a call whose fetch fails leaves the cache
\* directory as it was (no file created, changed or removed), and the next
\* identical call issues a request again.
C23_FailedFetchLeavesCacheUnchanged ==
    [][/\ (call'.op \in ProviderOps /\ EveryRequestFailed') => fs' = fs
       /\ (/\ call.op \in ProviderOps
           /\ EveryRequestFailed
           /\ call'.op = call.op
           /\ call'.args = call.args) => call'.requests # <<>>]_vars

\* C27: download_image and download_book_cover return only the path of a file
\* that was downloaded completely; a file left by a download that broke off is
\* not taken for a cached one, the call requests the body again.
C27_DownloadReturnsCompleteFile ==
    call.op \in DownloadOps =>
       /\ (call.result.kind = "return" /\ call.result.val.type = "str") =>
             /\ call.file \in DOMAIN fs
             /\ fs[call.file].text.wellformed
       /\ (call.pre.exists /\ ~call.pre.wellformed) => call.requests # <<>>

\* the field each operation takes its result from
ExpectedField == [get_mars_photos |-> "photos", search_nasa_images |-> "collection"]

\* the document the call worked on: the 2xx body it fetched, or the stored one
DocumentInHand ==
    IF HasStep("hit") THEN fs[call.file].text.doc ELSE call.responses[1].body

\* C24: a 2xx response without the expected field ('photos', 'collection')
\* raises nothing to the caller: the call that fetched it returns an empty
\* result, and so does a later call that finds it in the cache.
C24_MissingFieldReturnsEmpty ==
    (/\ call.op \in DOMAIN ExpectedField
     /\ \/ AllRequestsSucceeded
        \/ HasStep("hit") /\ call.pre.wellformed
     /\ ExpectedField[call.op] \notin DOMAIN DocumentInHand.value)
       => /\ call.result.kind = "return"
          /\ IsEmptyValue(call.result.val)

\* C26: the word of the day is stable for a day: a call made less than one day
\* after the call that wrote word_of_day.json returns what that call returned,
\* draws no word and issues no request, with or without an API key and also
\* when the stored definition came from the static dictionary.
C26_WordOfTheDayIsStable ==
    (/\ call.op = "get_word_of_the_day"
     /\ call.pre.exists
     /\ call.pre.age < TTL_DAY * HoursPerDay
     /\ writer[call.file].result.kind = "return")
       => /\ call.result = writer[call.file].result
          /\ call.requests = <<>>
          /\ ~HasStep("put")
          /\ fs[call.file].mtime = now - call.pre.age

\* a client without a key is handed the stored static definition again
C26_Witness ==
    /\ call.op = "get_word_of_the_day"
    /\ client.api_key = None
    /\ HasStep("hit")
    /\ call.pre.age < TTL_DAY * HoursPerDay
    /\ Returned
    /\ \E w \in EducationalWords :
          call.result.val.value.results[1].definition = StaticDefinition(w)

\* ------------------------------------------- further application claims
\* the user the credentials of a login form are good for: an active user of
\* that name, a child by its pin, an admin or parent by the password
Admitted(form) ==
    {i \in DOMAIN users :
        /\ users[i].username = form.username
        /\ users[i].is_active
        /\ \/ /\ users[i].role = "child"
              /\ form.pin # None
              /\ form.pin = users[i].pin
           \/ /\ users[i].role \in {"admin", "parent"}
              /\ form.password # None
              /\ users[i].password_hash = generate_password_hash(form.password)}

\* C21: POST /login logs a user in only when the user exists, is active and
\* gave the pin (child) or the password (admin, parent); in every other case
\* the session stays as it was, no 'login' activity is recorded and the login
\* page comes back with 'Invalid credentials'.
C21_LoginOnlyWithCredentials ==
    [][reply'.route = "login" =>
          IF Admitted(reply'.form) # {}
          THEN /\ session' \in Admitted(reply'.form)
               /\ reply'.status = 302
               /\ reply'.activity = <<[user_id |-> session', activity_type |-> "login"]>>
          ELSE /\ session' = session
               /\ reply'.activity = <<>>
               /\ reply'.status = 200
               /\ reply'.page = "login.html"
               /\ reply'.flash = "Invalid credentials"]_vars

\* a child marked inactive gave the right pin and was turned away
C21_Witness ==
    /\ reply.route = "login"
    /\ \E i \in DOMAIN users :
          /\ users[i].username = reply.form.username
          /\ ~users[i].is_active
          /\ users[i].pin = reply.form.pin
    /\ reply.flash = "Invalid credentials"
    /\ session = Anonymous

\* C29: complete_lesson sets the progress to 'completed' exactly when the score
\* is at least 80 and to 'failed' otherwise; a completed lesson awards the
\* lesson's XP, logs 'lesson_complete' and answers success, nothing raising;
\* a failed one awards no XP.
C29_CompleteLessonAwardsXP ==
    [][(/\ reply'.route = "complete_lesson"
        /\ reply'.who # None
        /\ reply'.form.lesson_id \in DOMAIN Lessons
        /\ <<session, reply'.form.lesson_id>> \in DOMAIN progress
        /\ reply'.form.score # NoScore)
       => LET key == <<session, reply'.form.lesson_id>>
              score == reply'.form.score
          IN  /\ progress'[key].status = IF score >= 80 THEN "completed" ELSE "failed"
              /\ score >= 80 =>
                    /\ reply'.status = 200
                    /\ reply'.json = PyDict([status |-> "success",
                                             message |-> "Lesson completed"])
                    /\ reply'.awarded = <<[user_id |-> session,
                                           xp |-> Lessons[key[2]].xp_value]>>
                    /\ reply'.activity = <<[user_id |-> session,
                                            activity_type |-> "lesson_complete"]>>
              /\ score < 80 => reply'.awarded = <<>>]_vars

\* C30: 'completed' is absorbing: no view_lesson, start_lesson or
\* complete_lesson request changes the status of a completed progress record.
C30_CompletedIsAbsorbing ==
    [][\A key \in DOMAIN progress :
          progress[key].status = "completed" =>
             /\ key \in DOMAIN progress'
             /\ progress'[key].status = "completed"]_vars


\* ---------------------------------------------------------------- C28
\* C28: when a call that reads a cache entry runs while another call is
\* rewriting the same entry, the reader never observes a partially written
\* file: its cache hit parses to a complete payload.
C28_ReaderNeverSeesPartialFile ==
    [][\A w \in Workers :
          (/\ threads[w].at = "CacheLookup"
           /\ threads'[w].hit
           /\ Writing(SearchCacheFile(threads[w].args)) # {})
          => threads'[w].result.kind = "return"]_vars

\* ---------------------------------------------------------------- C25
\* C25: every call of a provider operation eventually reaches one of the
\* terminal states Return or ReturnEmpty, provided the request it issues
\* completes or errors.  A call whose own write the disk refuses is set aside
\* here (it ends with OSError), so what is left to refute the property is a call
\* that every device served and that still reached neither terminal state.
C25_CallReachesReturn ==
    \A w \in Workers :
       (threads[w].at = "CacheLookup")
          ~> (\/ threads[w].at \in {"Return", "ReturnEmpty"}
              \/ threads[w].result = Raise("OSError"))


\* ---------------------------------------------------------------- C31
\* the XP rewards recorded for user u on lesson l
XPRewards(u, l) ==
    {i \in DOMAIN rewards : /\ "user_id" \in DOMAIN rewards[i]
                            /\ rewards[i].user_id = u
                            /\ rewards[i].description = Reason(l)}

Accepted(r) == r.json.type = "dict" /\ r.json.value.success
\* the body of the reply refuses the request with message
Refused(r, message) ==
    /\ r.json.type = "dict"
    /\ ~r.json.value.success
    /\ r.json.value.message = message

\* C32: a child's total_xp never becomes negative through purchase_reward and
\* mystery_reward: a purchase with total_xp < xp_cost and a mystery reward with
\* total_xp < 50 are refused with total_xp unchanged, and an accepted request
\* lowers total_xp by exactly the cost.
C32_XPNeverNegative ==
    [][/\ \A u \in DOMAIN users' : users'[u].total_xp >= 0
       /\ (is_authenticated /\ current_user.role = "child"
              /\ reply'.route = "purchase_reward"
              /\ reply'.form.reward_id \in DOMAIN rewards)
          => LET cost == rewards[reply'.form.reward_id].xp_cost
             IN  IF current_user.total_xp < cost
                 THEN Refused(reply', "Not enough XP") /\ users' = users
                 ELSE /\ Accepted(reply')
                      /\ users' = [users EXCEPT ![session].total_xp = @ - cost]
       /\ (is_authenticated /\ current_user.role = "child"
              /\ reply'.route = "mystery_reward")
          => IF current_user.total_xp < MysteryCost
             THEN Refused(reply', "Not enough XP") /\ users' = users
             ELSE IF Accepted(reply')
             THEN users' = [users EXCEPT ![session].total_xp = @ - MysteryCost]
             ELSE users' = users]_vars

\* a child who started with 100 XP has bought the sticker and a mystery reward,
\* and is refused the next purchase
C32_Witness ==
    /\ is_authenticated
    /\ current_user.role = "child"
    /\ current_user.total_xp = 20
    /\ reply.route = "purchase_reward"
    /\ Refused(reply, "Not enough XP")


\* ---------------------------------------------------------------- C33
\* C33: at least one admin user exists in every state reachable by delete_user
\* and bulk_user_action requests: a request that changes the user table comes
\* from an admin, and that admin's own row is still there after it.
C33_AnAdminAlwaysExists ==
    [][/\ \E u \in DOMAIN users' : users'[u].role = "admin"
       /\ (reply'.route \in {"delete_user", "bulk_user_action"} /\ users' # users)
          => /\ is_authenticated
             /\ current_user.role = "admin"
             /\ session \in DOMAIN users'
             /\ users'[session].role = "admin"]_vars

\* an admin has bulk-deleted every user on a list that names the admin too, and
\* is the one user left
C33_Witness ==
    /\ reply.route = "bulk_user_action"
    /\ Accepted(reply)
    /\ reply.form.action = "delete"
    /\ session \in reply.form.user_ids
    /\ DOMAIN users = {session}

\* ---------------------------------------------------------------- C37
\* C37: a user deactivated by the bulk action 'deactivate' can no longer log in
\* until 'activate' is applied: every /login for that user is rejected.
C37_DeactivatedCannotLogIn ==
    [][reply'.route = "login"
          => \A u \in DOMAIN users :
                (users[u].status = "inactive" /\ reply'.form.username = users[u].username)
                   => /\ reply'.flash = "Invalid credentials"
                      /\ session' = session]_vars


\* ---------------------------------------------------------------- C34
\* C34: after any sequence of create_user requests no two users share a
\* username and no two share an email: a request that reuses an existing
\* username or email is rejected with a failure message and adds no user.
C34_UsernamesAndEmailsUnique ==
    [][/\ \A u, v \in DOMAIN users' :
             u # v => /\ users'[u].username # users'[v].username
                      /\ users'[u].email # users'[v].email
       /\ (/\ reply'.route = "create_user"
           /\ is_authenticated
           /\ current_user.role = "admin"
           /\ \E u \in DOMAIN users : \/ users[u].username = reply'.form.username
                                      \/ users[u].email = reply'.form.email)
          => /\ \/ Refused(reply', "Username already exists")
                \/ Refused(reply', "Email already exists")
             /\ users' = users]_vars

\* the admin asked for a user with a new username and the email of the child
C34_Witness ==
    /\ reply.route = "create_user"
    /\ reply.who = "admin"
    /\ reply.form.username = "newchild"
    /\ reply.form.email = "kid@home"
    /\ Refused(reply, "Email already exists")


\* ---------------------------------------------------------------- C35
\* the requester may see and delete entry i: its owner, or an admin
MayAccess(i) == journal[i].user_id = session \/ current_user.role = "admin"

\* C35: a journal entry is returned or deleted only for its owner or for an
\* admin: a get or delete request by any other authenticated user (a parent
\* too) is answered 'Access denied' and leaves the entry unchanged.
C35_JournalOwnerOrAdminOnly ==
    [][/\ (/\ reply'.route \in {"get_journal_entry", "delete_journal_entry"}
           /\ is_authenticated
           /\ reply'.form.entry_id \in DOMAIN journal)
          => IF MayAccess(reply'.form.entry_id)
             THEN Accepted(reply')
             ELSE Refused(reply', "Access denied") /\ journal' = journal
       /\ \A i \in DOMAIN journal :
             i \notin DOMAIN journal'
                => /\ reply'.route = "delete_journal_entry"
                   /\ reply'.form.entry_id = i
                   /\ is_authenticated
                   /\ MayAccess(i)
       /\ (reply'.json.type = "dict" /\ "entry" \in DOMAIN reply'.json.value)
             => /\ reply'.route = "get_journal_entry"
                /\ is_authenticated
                /\ MayAccess(reply'.form.entry_id)
                /\ reply'.json.value.entry = EntryView(reply'.form.entry_id)]_vars

\* the parent asked to delete the child's entry and was refused
C35_Witness ==
    /\ reply.route = "delete_journal_entry"
    /\ reply.who = "parent"
    /\ Refused(reply, "Access denied")
    /\ reply.form.entry_id \in DOMAIN journal
    /\ journal[reply.form.entry_id].user_id # session

\* ---------------------------------------------------------------- C36
\* the drafts of user u that create_journal_entry added
CreatedDrafts(u) ==
    {i \in Drafts(journal, u) : journal[i].by = "create_journal_entry"}

\* C36: after any sequence of save_journal_draft requests by a child who creates
\* no draft through create_journal_entry, that child has at most one draft
\* journal entry, and it holds the title, content, tags and mood of the latest
\* save.
C36_OneDraftHoldingLatestSave ==
    [][/\ \A u \in DOMAIN users :
             (\A i \in Drafts(journal', u) : journal'[i].by = "save_journal_draft")
                => Cardinality(Drafts(journal', u)) <= 1
       /\ (/\ reply'.route = "save_journal_draft"
           /\ Accepted(reply')
           /\ CreatedDrafts(session) = {})
          => \E d \in DOMAIN journal' :
                /\ Drafts(journal', session) = {d}
                /\ journal'[d] = JournalEntry(session, reply'.form, TRUE,
                                              "save_journal_draft")]_vars

\* the child saved a filled draft and then an empty one over it, next to an
\* entry that is no draft
C36_Witness ==
    /\ reply.route = "save_journal_draft"
    /\ Accepted(reply)
    /\ reply.form.content = ""
    /\ Cardinality(DOMAIN journal) = 2
    /\ \E d \in DOMAIN journal :
          /\ Drafts(journal, session) = {d}
          /\ journal[d] = JournalEntry(session, reply.form, TRUE, "save_journal_draft")

====
